---------------------------- MODULE Spec2Model ----------------------------
(***************************************************************************)
(* Assignment Evaluator backend: the submission and assignment lifecycle   *)
(* handlers of backend/routes/student.py and backend/routes/teacher.py,    *)
(* over a relational store (tables assignments, submissions) and a blob    *)
(* store (buckets 'assignments', 'submissions').                           *)
(*                                                                         *)
(* Conventions.  A nullable column or an optional form field is a sequence *)
(* of length at most one: <<>> is NULL / absent, <<v>> is the value v.     *)
(* A string the code parses or splits is a sequence of its characters or   *)
(* path segments.  A handler is an operator from the stores before the     *)
(* request, the request and the outcomes of the external calls to the      *)
(* response and the stores after every external call it made, in order.    *)
(***************************************************************************)
EXTENDS Integers, Sequences, FiniteSets, TLC

VARIABLES
    submissions,         \* rows of table submissions
    assignments,         \* rows of table assignments
    storage,             \* objects of the blob store: [bucket, key]
    next_submission_id,  \* the serial behind submissions.submission_id
    next_assignment_id,  \* the serial behind assignments.assignment_id
    now,                 \* the wall clock, in seconds
    requests,            \* number of requests served so far
    last,                \* the request being answered: the stores before
                         \* it, the response and what the handler did
    inflight             \* the requests running concurrently, each with
                         \* its position in its handler and its locals

vars == <<submissions, assignments, storage, next_submission_id,
          next_assignment_id, now, requests, last, inflight>>

----------------------------------------------------------------------------
(* Bounds of the model *)

MaxSubmissions == 2
MaxAssignments == 1
MaxTime == 1
MaxRequests == 4

----------------------------------------------------------------------------
(* Values *)

NULL == <<>>

Some(v) == <<v>>

IsNull(o) == Len(o) = 0

Val(o) == o[1]

Students == {"s1", "s2"}

Teachers == {"t1", "t2"}

BUCKET_SUBMISSIONS == "submissions"

BUCKET_ASSIGNMENTS == "assignments"

----------------------------------------------------------------------------
(* Python and werkzeug helpers the handlers call *)

Digits == {"0", "1", "2", "3", "4", "5", "6", "7", "8", "9"}

DigitValue(c) ==
    CASE c = "0" -> 0 [] c = "1" -> 1 [] c = "2" -> 2 [] c = "3" -> 3
      [] c = "4" -> 4 [] c = "5" -> 5 [] c = "6" -> 6 [] c = "7" -> 7
      [] c = "8" -> 8 [] c = "9" -> 9

IsDigits(s) == Len(s) > 0 /\ \A i \in 1..Len(s) : s[i] \in Digits

RECURSIVE DigitsValue(_)
DigitsValue(s) ==
    IF Len(s) = 0 THEN 0
    ELSE 10 * DigitsValue(SubSeq(s, 1, Len(s) - 1)) + DigitValue(s[Len(s)])

\* int(s) of a str s: whether it raises ValueError, and its value otherwise.
IntParses(s) ==
    \/ IsDigits(s)
    \/ Len(s) > 1 /\ s[1] \in {"-", "+"} /\ IsDigits(Tail(s))

IntValue(s) ==
    IF s[1] = "-" THEN 0 - DigitsValue(Tail(s))
    ELSE IF s[1] = "+" THEN DigitsValue(Tail(s))
    ELSE DigitsValue(s)

\* `not v` for a form field v that is None (absent) or a str.
Falsy(field) == IsNull(field) \/ Len(Val(field)) = 0

\* int(time.time()): the clock counts whole seconds.
UnixSeconds(t) == t

DotSegments == {"..", "."}

RECURSIVE StripLeading(_)
StripLeading(f) ==
    IF Len(f) > 0 /\ f[1] \in DotSegments THEN StripLeading(Tail(f)) ELSE f

RECURSIVE StripTrailing(_)
StripTrailing(f) ==
    IF Len(f) > 0 /\ f[Len(f)] \in DotSegments
    THEN StripTrailing(SubSeq(f, 1, Len(f) - 1))
    ELSE f

\* werkzeug's secure_filename on a file name given as its path segments:
\* separators become "_" (the segments stay, as one name) and leading and
\* trailing dots are stripped.
secure_filename(f) == StripTrailing(StripLeading(f))

\* f"{int(time.time())}_{filename}"
StorageKey(t, f) == [ts |-> UnixSeconds(t), name |-> secure_filename(f)]

----------------------------------------------------------------------------
(* Blob store client (supabase.storage) *)

Object(bucket, key) == [bucket |-> bucket, key |-> key]

\* from_(bucket).upload(path=key, ...): raises when the service fails or when
\* an object of that key exists (the client sends no upsert option).
UploadSucceeds(st, bucket, key, ok) == ok /\ Object(bucket, key) \notin st

StorageUpload(st, bucket, key) == st \cup {Object(bucket, key)}

\* from_(bucket).remove([key]); removing an absent key is not an error.
StorageRemove(st, bucket, key) == st \ {Object(bucket, key)}

\* from_(bucket).get_public_url(key), as its path segments.
get_public_url(bucket, key) == <<"public", bucket, key>>

\* url.split("/")[-1]
UrlFileName(url) == url[Len(url)]

----------------------------------------------------------------------------
(* The stores as one value, and the SQL statements the handlers execute *)

World == [submissions        |-> submissions,
          assignments        |-> assignments,
          storage            |-> storage,
          next_submission_id |-> next_submission_id,
          next_assignment_id |-> next_assignment_id]

SubmissionById(w, submission_id) ==
    {r \in w.submissions : r.submission_id = submission_id}

AssignmentById(w, assignment_id) ==
    {a \in w.assignments : a.assignment_id = assignment_id}

\* a submissions table without the foreign key
ForeignKeyHolds_Absent(w, assignment_id) == TRUE

\* submissions.assignment_id references assignments.assignment_id.
ForeignKeyHolds(w, assignment_id) == AssignmentById(w, assignment_id) # {}

SqlInsertSubmission_MarksZero(w, assignment_id, student_id, file_url, comments, t) ==
    [w EXCEPT
        !.submissions = @ \cup
            {[submission_id    |-> w.next_submission_id,
              assignment_id    |-> assignment_id,
              student_id       |-> student_id,
              file_url         |-> file_url,
              student_comments |-> comments,
              marks            |-> Some(0),
              feedback         |-> NULL,
              submitted_at     |-> t]},
        !.next_submission_id = @ + 1]

\* INSERT INTO submissions (assignment_id, student_id, file_url,
\* student_comments) VALUES (...) RETURNING submission_id
SqlInsertSubmission(w, assignment_id, student_id, file_url, comments, t) ==
    [w EXCEPT
        !.submissions = @ \cup
            {[submission_id    |-> w.next_submission_id,
              assignment_id    |-> assignment_id,
              student_id       |-> student_id,
              file_url         |-> file_url,
              student_comments |-> comments,
              marks            |-> NULL,
              feedback         |-> NULL,
              submitted_at     |-> t]},
        !.next_submission_id = @ + 1]

\* SELECT file_url FROM submissions WHERE submission_id = %s
SqlSelectSubmissionFile(w, submission_id) == SubmissionById(w, submission_id)

SqlSelectOwnSubmissionFile_AnyStudent(w, submission_id, student_id) ==
    {r \in w.submissions : r.submission_id = submission_id}

\* SELECT file_url FROM submissions WHERE submission_id = %s AND student_id = %s
SqlSelectOwnSubmissionFile(w, submission_id, student_id) ==
    {r \in w.submissions :
        r.submission_id = submission_id /\ r.student_id = student_id}

SqlUpdateSubmissionFile_ResetsMarks(w, file_url, submission_id, student_id, t) ==
    [w EXCEPT !.submissions =
        {IF r.submission_id = submission_id /\ r.student_id = student_id
         THEN [r EXCEPT !.file_url = file_url, !.submitted_at = t,
                        !.marks = NULL, !.feedback = NULL]
         ELSE r : r \in @}]

\* UPDATE submissions SET file_url = %s, submitted_at = CURRENT_TIMESTAMP
\* WHERE submission_id = %s AND student_id = %s
SqlUpdateSubmissionFile(w, file_url, submission_id, student_id, t) ==
    [w EXCEPT !.submissions =
        {IF r.submission_id = submission_id /\ r.student_id = student_id
         THEN [r EXCEPT !.file_url = file_url, !.submitted_at = t]
         ELSE r : r \in @}]

SqlDeleteSubmission_OtherRows(w, submission_id) ==
    [w EXCEPT !.submissions = {r \in @ : r.submission_id = submission_id}]

\* DELETE FROM submissions WHERE submission_id = %s
SqlDeleteSubmission(w, submission_id) ==
    [w EXCEPT !.submissions = @ \ SubmissionById(w, submission_id)]

\* SELECT file_url FROM submissions WHERE assignment_id = %s
SqlSelectSubmissionFiles(w, assignment_id) ==
    {r \in w.submissions : r.assignment_id = assignment_id}

SqlDeleteSubmissionsOf_None(w, assignment_id) == w

\* DELETE FROM submissions WHERE assignment_id = %s
SqlDeleteSubmissionsOf(w, assignment_id) ==
    [w EXCEPT !.submissions =
        {r \in @ : r.assignment_id # assignment_id}]

\* DELETE FROM assignments WHERE assignment_id = %s AND teacher_id = %s
SqlDeleteAssignment(w, assignment_id, teacher_id) ==
    [w EXCEPT !.assignments =
        {a \in @ : ~(a.assignment_id = assignment_id
                     /\ a.teacher_id = teacher_id)}]

\* INSERT INTO assignments (title, description, teacher_id, deadline,
\* max_marks, file_url, subject) VALUES (...) RETURNING assignment_id
SqlInsertAssignment(w, title, description, teacher_id, deadline, max_marks, file_url, subject) ==
    [w EXCEPT
        !.assignments = @ \cup
            {[assignment_id |-> w.next_assignment_id,
              title         |-> title,
              description   |-> description,
              teacher_id    |-> teacher_id,
              deadline      |-> deadline,
              max_marks     |-> max_marks,
              file_url      |-> file_url,
              subject       |-> subject]},
        !.next_assignment_id = @ + 1]

SqlUpdateAssignment_ClearsFile(w, title, description, deadline, max_marks, subject, file_url, assignment_id, teacher_id) ==
    [w EXCEPT !.assignments =
        {IF a.assignment_id = assignment_id /\ a.teacher_id = teacher_id
         THEN [a EXCEPT !.title = title, !.description = description,
                        !.deadline = deadline, !.max_marks = max_marks,
                        !.subject = subject, !.file_url = file_url]
         ELSE a : a \in @}]

SqlUpdateAssignment_AnyTeacher(w, title, description, deadline, max_marks, subject, file_url, assignment_id, teacher_id) ==
    [w EXCEPT !.assignments =
        {IF a.assignment_id = assignment_id
         THEN [a EXCEPT !.title = title, !.description = description,
                        !.deadline = deadline, !.max_marks = max_marks,
                        !.subject = subject,
                        !.file_url = IF IsNull(file_url) THEN @ ELSE file_url]
         ELSE a : a \in @}]

\* UPDATE assignments SET title = %s, description = %s,
\*   deadline = %s::timestamp, max_marks = %s, subject = %s [, file_url = %s]
\* WHERE assignment_id = %s AND teacher_id = %s
\* A parameter that is None is written as NULL; file_url is in the SET list
\* only when a new file was uploaded.
SqlUpdateAssignment(w, title, description, deadline, max_marks, subject, file_url, assignment_id, teacher_id) ==
    [w EXCEPT !.assignments =
        {IF a.assignment_id = assignment_id /\ a.teacher_id = teacher_id
         THEN [a EXCEPT !.title = title, !.description = description,
                        !.deadline = deadline, !.max_marks = max_marks,
                        !.subject = subject,
                        !.file_url = IF IsNull(file_url) THEN @ ELSE file_url]
         ELSE a : a \in @}]

SqlUpdateMarks_OnlyOnce(w, marks, feedback, submission_id) ==
    [w EXCEPT !.submissions =
        {IF r.submission_id = submission_id /\ IsNull(r.marks)
         THEN [r EXCEPT !.marks = Some(marks), !.feedback = feedback]
         ELSE r : r \in @}]

\* UPDATE submissions SET marks = %s, feedback = %s WHERE submission_id = %s
\* RETURNING submission_id
SqlUpdateMarks(w, marks, feedback, submission_id) ==
    [w EXCEPT !.submissions =
        {IF r.submission_id = submission_id
         THEN [r EXCEPT !.marks = Some(marks), !.feedback = feedback]
         ELSE r : r \in @}]

\* submission_status reading marks by its truth value, so that marks = 0
\* would show as submitted
submission_status_ZeroIsSubmitted(rows) ==
    IF rows = {} THEN "pending"
    ELSE IF \E r \in rows : IsNull(r.marks) \/ Val(r.marks) = 0 THEN "submitted"
    ELSE "evaluated"

\* CASE WHEN s.submission_id IS NULL THEN 'pending'
\*      WHEN s.marks IS NULL THEN 'submitted' ELSE 'evaluated' END
submission_status(rows) ==
    IF rows = {} THEN "pending"
    ELSE IF IsNull((CHOOSE r \in rows : TRUE).marks) THEN "submitted"
    ELSE "evaluated"

\* CASE WHEN s.marks IS NULL THEN 'submitted' ELSE 'evaluated' END AS status
\* of the teacher listings and of the single-submission fetch
SqlStatusColumn(r) == IF IsNull(r.marks) THEN Some("submitted") ELSE Some("evaluated")

\* r.get("status") or "submitted": a missing or empty status column shows
\* as submitted
row_to_submission_status(status) ==
    IF IsNull(status) \/ Val(status) = "" THEN "submitted" ELSE Val(status)

----------------------------------------------------------------------------
(* Requests and responses *)

\* str.strip() on a string given as its characters
RECURSIVE LStrip(_)
LStrip(s) == IF Len(s) > 0 /\ s[1] = " " THEN LStrip(Tail(s)) ELSE s

RECURSIVE RStrip(_)
RStrip(s) ==
    IF Len(s) > 0 /\ s[Len(s)] = " "
    THEN RStrip(SubSeq(s, 1, Len(s) - 1))
    ELSE s

strip(s) == RStrip(LStrip(s))

\* request.form.get(name, "").strip()
FormText(field) == strip(IF IsNull(field) THEN <<>> ELSE Val(field))

\* `text or None`
OrNone(text) == IF Len(text) = 0 THEN NULL ELSE Some(text)

\* 'file' in request.files and file.filename != ''
HasNamedFile(file) == ~IsNull(file) /\ Len(Val(file).filename) # 0

\* One external call a handler made: its name, whether it succeeded, and the
\* stores after it.
Step(call, ok, w) == [call |-> call, ok |-> ok, w |-> w]

\* jsonify({...}), status
Response(status, message, submission_id, file_url, steps) ==
    [status |-> status, success |-> status < 400, message |-> message,
     id |-> submission_id, file_url |-> file_url, steps |-> steps]

\* The stores a handler leaves behind.
After(w, r) == IF Len(r.steps) = 0 THEN w ELSE r.steps[Len(r.steps)].w

----------------------------------------------------------------------------
(* routes/student.py *)

\* A response with one more call made before those it reports.
After1(step, r) == [r EXCEPT !.steps = <<step>> \o @]

\* create_submission from the int() of assignment_id on: the row insert.
create_submission_insert(w, t, student_id, assignment_id, comments, file_url, db_ok) ==
    LET aid == IntValue(Val(assignment_id))
        w1  == SqlInsertSubmission(w, aid, student_id, Some(file_url), OrNone(comments), t)
    IN  IF ~IntParses(Val(assignment_id))
        THEN Response(400, "Invalid assignment_id.", NULL, NULL, <<>>)
        ELSE IF ~db_ok \/ ~ForeignKeyHolds(w, aid)
        THEN Response(500, "database error", NULL, NULL, <<Step("insert", FALSE, w)>>)
        ELSE Response(201, "Submission uploaded to Supabase.",
                      Some(w.next_submission_id), Some(file_url),
                      <<Step("insert", TRUE, w1)>>)

create_submission_UploadErrorSwallowed(w, t, student_id, assignment_id, comments_field, file, up_ok, db_ok) ==
    LET filename == StorageKey(t, Val(file).filename)
        uploaded == UploadSucceeds(w.storage, BUCKET_SUBMISSIONS, filename, up_ok)
        w1       == IF uploaded
                    THEN [w EXCEPT !.storage = StorageUpload(@, BUCKET_SUBMISSIONS, filename)]
                    ELSE w
    IN  IF Falsy(assignment_id)
        THEN Response(400, "assignment_id is required.", NULL, NULL, <<>>)
        ELSE IF ~HasNamedFile(file)
        THEN Response(400, "File upload is required.", NULL, NULL, <<>>)
        ELSE After1(Step("upload", uploaded, w1),
                    create_submission_insert(w1, t, student_id, assignment_id,
                        FormText(comments_field),
                        get_public_url(BUCKET_SUBMISSIONS, filename), db_ok))

\* POST /student/<student_id>/submissions
create_submission(w, t, student_id, assignment_id, comments_field, file, up_ok, db_ok) ==
    LET comments == FormText(comments_field)
        filename == StorageKey(t, Val(file).filename)
        uploaded == UploadSucceeds(w.storage, BUCKET_SUBMISSIONS, filename, up_ok)
        w1       == [w EXCEPT !.storage = StorageUpload(@, BUCKET_SUBMISSIONS, filename)]
        file_url == get_public_url(BUCKET_SUBMISSIONS, filename)
    IN  IF Falsy(assignment_id)
        THEN Response(400, "assignment_id is required.", NULL, NULL, <<>>)
        ELSE IF HasNamedFile(file) /\ ~uploaded
        THEN Response(500, "Storage upload failed", NULL, NULL,
                      <<Step("upload", FALSE, w)>>)
        ELSE IF ~HasNamedFile(file)
        THEN Response(400, "File upload is required.", NULL, NULL, <<>>)
        ELSE After1(Step("upload", TRUE, w1),
                    create_submission_insert(w1, t, student_id, assignment_id,
                                             comments, file_url, db_ok))

update_submission_row_KeepsOldBlob(w, t, student_id, submission_id, new_file_url, db_ok, rm_ok) ==
    LET w1 == SqlUpdateSubmissionFile(w, Some(new_file_url), submission_id, student_id, t)
    IN  IF ~db_ok
        THEN Response(500, "database error", NULL, NULL, <<Step("update", FALSE, w)>>)
        ELSE Response(200, "Submission updated successfully.", NULL, Some(new_file_url),
                      <<Step("update", TRUE, w1)>>)

\* update_submission from get_db_connection() on: the SELECT of the old
\* file, the UPDATE, the commit and the removal of the old file.
update_submission_row(w, t, student_id, submission_id, new_file_url, db_ok, rm_ok) ==
    LET old       == SqlSelectSubmissionFile(w, submission_id)
        w1        == SqlUpdateSubmissionFile(w, Some(new_file_url), submission_id, student_id, t)
        old_row   == CHOOSE r \in old : TRUE
        old_fname == UrlFileName(Val(old_row.file_url))
        w2        == IF rm_ok
                     THEN [w1 EXCEPT !.storage = StorageRemove(@, BUCKET_SUBMISSIONS, old_fname)]
                     ELSE w1
    IN  IF ~db_ok
        THEN Response(500, "database error", NULL, NULL, <<Step("update", FALSE, w)>>)
        ELSE IF old # {} /\ ~IsNull(old_row.file_url)
        THEN Response(200, "Submission updated successfully.", NULL, Some(new_file_url),
                      <<Step("update", TRUE, w1), Step("remove", rm_ok, w2)>>)
        ELSE Response(200, "Submission updated successfully.", NULL, Some(new_file_url),
                      <<Step("update", TRUE, w1)>>)

update_submission_UploadErrorSwallowed(w, t, student_id, submission_id, file, up_ok, db_ok, rm_ok) ==
    LET filename == StorageKey(t, Val(file).filename)
        uploaded == UploadSucceeds(w.storage, BUCKET_SUBMISSIONS, filename, up_ok)
        w1       == IF uploaded
                    THEN [w EXCEPT !.storage = StorageUpload(@, BUCKET_SUBMISSIONS, filename)]
                    ELSE w
    IN  IF IsNull(file)
        THEN Response(400, "No file uploaded.", NULL, NULL, <<>>)
        ELSE IF Len(Val(file).filename) = 0
        THEN Response(400, "Empty filename.", NULL, NULL, <<>>)
        ELSE After1(Step("upload", uploaded, w1),
                    update_submission_row(w1, t, student_id, submission_id,
                        get_public_url(BUCKET_SUBMISSIONS, filename), db_ok, rm_ok))

\* PUT /student/<student_id>/submission/<int:submission_id>
update_submission(w, t, student_id, submission_id, file, up_ok, db_ok, rm_ok) ==
    LET filename     == StorageKey(t, Val(file).filename)
        uploaded     == UploadSucceeds(w.storage, BUCKET_SUBMISSIONS, filename, up_ok)
        w1           == [w EXCEPT !.storage = StorageUpload(@, BUCKET_SUBMISSIONS, filename)]
        new_file_url == get_public_url(BUCKET_SUBMISSIONS, filename)
    IN  IF IsNull(file)
        THEN Response(400, "No file uploaded.", NULL, NULL, <<>>)
        ELSE IF Len(Val(file).filename) = 0
        THEN Response(400, "Empty filename.", NULL, NULL, <<>>)
        ELSE IF ~uploaded
        THEN Response(500, "storage error", NULL, NULL, <<Step("upload", FALSE, w)>>)
        ELSE After1(Step("upload", TRUE, w1),
                    update_submission_row(w1, t, student_id, submission_id,
                                          new_file_url, db_ok, rm_ok))

delete_submission_RemoveErrorSurfaced(w, student_id, submission_id, db_fail, rm_ok) ==
    LET rows  == SqlSelectOwnSubmissionFile(w, submission_id, student_id)
        row   == CHOOSE r \in rows : TRUE
        fname == UrlFileName(Val(row.file_url))
        w1    == [w EXCEPT !.storage = StorageRemove(@, BUCKET_SUBMISSIONS, fname)]
        w2    == SqlDeleteSubmission(w1, submission_id)
    IN  IF db_fail = 1
        THEN Response(500, "database error", NULL, NULL, <<Step("select", FALSE, w)>>)
        ELSE IF rows = {}
        THEN Response(404, "Submission not found.", NULL, NULL, <<>>)
        ELSE IF ~rm_ok
        THEN Response(500, "storage error", NULL, NULL, <<Step("remove", FALSE, w)>>)
        ELSE IF db_fail = 2
        THEN Response(500, "database error", NULL, NULL,
                      <<Step("remove", TRUE, w1), Step("delete", FALSE, w1)>>)
        ELSE Response(200, "Submission deleted.", NULL, NULL,
                      <<Step("remove", TRUE, w1), Step("delete", TRUE, w2)>>)

\* DELETE /student/<student_id>/submission/<int:submission_id>
\* db_fail: 0 none, 1 the connection or the SELECT, 2 the DELETE or the commit
delete_submission(w, student_id, submission_id, db_fail, rm_ok) ==
    LET rows  == SqlSelectOwnSubmissionFile(w, submission_id, student_id)
        row   == CHOOSE r \in rows : TRUE
        fname == UrlFileName(Val(row.file_url))
        w1    == IF ~IsNull(row.file_url) /\ rm_ok
                 THEN [w EXCEPT !.storage = StorageRemove(@, BUCKET_SUBMISSIONS, fname)]
                 ELSE w
        removal == IF IsNull(row.file_url) THEN <<>> ELSE <<Step("remove", rm_ok, w1)>>
        w2    == SqlDeleteSubmission(w1, submission_id)
    IN  IF db_fail = 1
        THEN Response(500, "database error", NULL, NULL, <<Step("select", FALSE, w)>>)
        ELSE IF rows = {}
        THEN Response(404, "Submission not found.", NULL, NULL, <<>>)
        ELSE IF db_fail = 2
        THEN Response(500, "database error", NULL, NULL,
                      removal \o <<Step("delete", FALSE, w1)>>)
        ELSE Response(200, "Submission deleted.", NULL, NULL,
                      removal \o <<Step("delete", TRUE, w2)>>)

\* FROM assignments a LEFT JOIN submissions s
\*   ON a.assignment_id = s.assignment_id AND s.student_id = %s
\* One row for each matching submission of an assignment, and one row with
\* the s columns NULL for an assignment that has none.
LeftJoinSubmissions(w, student_id) ==
    UNION {LET matched == {r \in w.submissions :
                              /\ r.assignment_id = a.assignment_id
                              /\ r.student_id = student_id}
           IN  IF matched = {}
               THEN {[a |-> a, s |-> NULL]}
               ELSE {[a |-> a, s |-> Some(r)] : r \in matched}
           : a \in w.assignments}

\* SELECT COUNT(a.assignment_id) AS total, COUNT(s.submission_id) AS submitted,
\*   COUNT(CASE WHEN s.marks IS NOT NULL THEN 1 END) AS evaluated,
\*   COUNT(a.assignment_id) - COUNT(s.submission_id) AS pending
\* COUNT(x) counts the joined rows whose x is not NULL.
SqlDashboardCounts(w, student_id) ==
    LET joined    == LeftJoinSubmissions(w, student_id)
        total     == Cardinality(joined)
        submitted == Cardinality({j \in joined : ~IsNull(j.s)})
        evaluated == Cardinality({j \in joined : ~IsNull(j.s) /\ ~IsNull(Val(j.s).marks)})
    IN  [total_assignments |-> total,
         submitted_count   |-> submitted,
         evaluated_count   |-> evaluated,
         pending_count     |-> total - submitted]

\* GET /student/<student_id>/dashboard
\* The answer carries the counts and, for each joined row, the assignment
\* with its computed status.
get_student_dashboard(w, student_id, db_ok) ==
    LET counts == SqlDashboardCounts(w, student_id)
        listed == {[id |-> j.a.assignment_id,
                    submission_status |->
                        submission_status(IF IsNull(j.s) THEN {} ELSE {Val(j.s)})] :
                   j \in LeftJoinSubmissions(w, student_id)}
    IN  IF ~db_ok
        THEN [status |-> 500, success |-> FALSE, message |-> "database error",
              steps |-> <<Step("select", FALSE, w)>>]
        ELSE [status |-> 200, success |-> TRUE, message |-> "",
              steps |-> <<>>, student_id |-> student_id,
              total_assignments |-> counts.total_assignments,
              submitted_count   |-> counts.submitted_count,
              evaluated_count   |-> counts.evaluated_count,
              pending_count     |-> counts.pending_count,
              assignments       |-> listed]

----------------------------------------------------------------------------
(* routes/teacher.py *)

\* POST /teacher/<teacher_id>/assignments
create_assignment(w, t, teacher_id, form, file, up_ok, db_ok) ==
    LET title       == FormText(form.title)
        description == FormText(form.description)
        subject     == FormText(form.subject)
        filename    == StorageKey(t, Val(file).filename)
        uploaded    == UploadSucceeds(w.storage, BUCKET_ASSIGNMENTS, filename, up_ok)
        w1          == IF HasNamedFile(file)
                       THEN [w EXCEPT !.storage = StorageUpload(@, BUCKET_ASSIGNMENTS, filename)]
                       ELSE w
        file_url    == IF HasNamedFile(file)
                       THEN Some(get_public_url(BUCKET_ASSIGNMENTS, filename))
                       ELSE NULL
        upload      == IF HasNamedFile(file) THEN <<Step("upload", TRUE, w1)>> ELSE <<>>
        max_marks   == IntValue(Val(form.max_marks))
        w2          == SqlInsertAssignment(w1, title, OrNone(description), teacher_id, form.deadline, Some(max_marks), file_url, OrNone(subject))
    IN  IF Len(title) = 0
        THEN Response(400, "Assignment title is required.", NULL, NULL, <<>>)
        ELSE IF Falsy(form.deadline)
        THEN Response(400, "Deadline is required.", NULL, NULL, <<>>)
        ELSE IF Falsy(form.max_marks)
        THEN Response(400, "Maximum marks is required.", NULL, NULL, <<>>)
        ELSE IF HasNamedFile(file) /\ ~uploaded
        THEN Response(500, "Storage upload failed", NULL, NULL,
                      <<Step("upload", FALSE, w)>>)
        ELSE IF ~IntParses(Val(form.max_marks))
        THEN Response(400, "Maximum marks must be a number.", NULL, NULL, upload)
        ELSE IF ~db_ok
        THEN Response(500, "database error", NULL, NULL,
                      upload \o <<Step("insert", FALSE, w1)>>)
        ELSE Response(201, "Assignment created and uploaded to Supabase.",
                      Some(w1.next_assignment_id), file_url,
                      upload \o <<Step("insert", TRUE, w2)>>)

\* PUT /teacher/<teacher_id>/assignment/<int:assignment_id>
\* The SELECT of the old file_url is followed by `pass` only: no call to the
\* store removes the previous attachment.  max_marks goes to the UPDATE as
\* the form's text, which the integer column refuses when it is not a number.
update_assignment(w, t, teacher_id, assignment_id, form, file, up_ok, db_ok) ==
    LET title       == FormText(form.title)
        description == FormText(form.description)
        subject     == FormText(form.subject)
        filename    == StorageKey(t, Val(file).filename)
        uploaded    == UploadSucceeds(w.storage, BUCKET_ASSIGNMENTS, filename, up_ok)
        w1          == IF HasNamedFile(file)
                       THEN [w EXCEPT !.storage = StorageUpload(@, BUCKET_ASSIGNMENTS, filename)]
                       ELSE w
        new_file_url == IF HasNamedFile(file)
                        THEN Some(get_public_url(BUCKET_ASSIGNMENTS, filename))
                        ELSE NULL
        upload      == IF HasNamedFile(file) THEN <<Step("upload", TRUE, w1)>> ELSE <<>>
        accepted    == IsNull(form.max_marks) \/ IntParses(Val(form.max_marks))
        max_marks   == IF IsNull(form.max_marks) THEN NULL
                       ELSE Some(IntValue(Val(form.max_marks)))
        w2          == SqlUpdateAssignment(w1, title, OrNone(description), form.deadline, max_marks, OrNone(subject), new_file_url, assignment_id, teacher_id)
    IN  IF Len(title) = 0
        THEN Response(400, "Assignment title is required.", NULL, NULL, <<>>)
        ELSE IF HasNamedFile(file) /\ ~uploaded
        THEN Response(500, "Storage upload failed", NULL, NULL,
                      <<Step("upload", FALSE, w)>>)
        ELSE IF ~db_ok \/ ~accepted
        THEN Response(500, "database error", NULL, NULL,
                      upload \o <<Step("update", FALSE, w1)>>)
        ELSE Response(200, "Assignment updated successfully.", NULL, new_file_url,
                      upload \o <<Step("update", TRUE, w2)>>)

RECURSIVE RemoveSubmissionFiles_StopsAtFailure(_, _, _)
RemoveSubmissionFiles_StopsAtFailure(w, s_rows, rm_failed) ==
    IF s_rows = {} THEN <<>>
    ELSE LET s     == CHOOSE r \in s_rows : TRUE
             fname == UrlFileName(Val(s.file_url))
             ok    == Object(BUCKET_SUBMISSIONS, fname) \notin rm_failed
             w1    == [w EXCEPT !.storage = StorageRemove(@, BUCKET_SUBMISSIONS, fname)]
         IN  IF ~ok
             THEN <<Step("remove", FALSE, w)>>
             ELSE <<Step("remove", TRUE, w1)>>
                  \o RemoveSubmissionFiles_StopsAtFailure(w1, s_rows \ {s}, rm_failed)

\* for s in s_rows: if s['file_url']: try: remove([fname]) except: pass
RECURSIVE RemoveSubmissionFiles(_, _, _)
RemoveSubmissionFiles(w, s_rows, rm_failed) ==
    IF s_rows = {} THEN <<>>
    ELSE LET s     == CHOOSE r \in s_rows : TRUE
             fname == UrlFileName(Val(s.file_url))
             ok    == Object(BUCKET_SUBMISSIONS, fname) \notin rm_failed
             w1    == IF ok
                      THEN [w EXCEPT !.storage = StorageRemove(@, BUCKET_SUBMISSIONS, fname)]
                      ELSE w
         IN  IF IsNull(s.file_url)
             THEN RemoveSubmissionFiles(w, s_rows \ {s}, rm_failed)
             ELSE <<Step("remove", ok, w1)>>
                  \o RemoveSubmissionFiles(w1, s_rows \ {s}, rm_failed)

\* The objects delete_assignment asks the blob store to remove.
DeleteAssignmentTargets(w, assignment_id) ==
    {Object(BUCKET_ASSIGNMENTS, UrlFileName(Val(a.file_url))) :
        a \in {x \in AssignmentById(w, assignment_id) : ~IsNull(x.file_url)}}
    \cup
    {Object(BUCKET_SUBMISSIONS, UrlFileName(Val(s.file_url))) :
        s \in {x \in SqlSelectSubmissionFiles(w, assignment_id) : ~IsNull(x.file_url)}}

\* DELETE /teacher/<teacher_id>/assignment/<int:assignment_id>
\* db_fail: 0 none, 1 the connection or a SELECT, 2 a DELETE or the commit
\* rm_failed: the objects whose removal raises
delete_assignment(w, teacher_id, assignment_id, db_fail, rm_failed) ==
    LET a_rows  == AssignmentById(w, assignment_id)
        a_row   == CHOOSE a \in a_rows : TRUE
        s_rows  == SqlSelectSubmissionFiles(w, assignment_id)
        has_a   == a_rows # {} /\ ~IsNull(a_row.file_url)
        a_fname == UrlFileName(Val(a_row.file_url))
        a_ok    == Object(BUCKET_ASSIGNMENTS, a_fname) \notin rm_failed
        w1      == IF has_a /\ a_ok
                   THEN [w EXCEPT !.storage = StorageRemove(@, BUCKET_ASSIGNMENTS, a_fname)]
                   ELSE w
        step2   == IF has_a THEN <<Step("remove", a_ok, w1)>> ELSE <<>>
        step3   == RemoveSubmissionFiles(w1, s_rows, rm_failed)
        w2      == IF Len(step3) = 0 THEN w1 ELSE step3[Len(step3)].w
        w3      == SqlDeleteAssignment(SqlDeleteSubmissionsOf(w2, assignment_id), assignment_id, teacher_id)
    IN  IF db_fail = 1
        THEN Response(500, "database error", NULL, NULL, <<Step("select", FALSE, w)>>)
        ELSE IF db_fail = 2
        THEN Response(500, "database error", NULL, NULL,
                      step2 \o step3 \o <<Step("delete", FALSE, w2)>>)
        ELSE Response(200, "Assignment and associated data deleted.", NULL, NULL,
                      step2 \o step3 \o <<Step("delete", TRUE, w3)>>)

\* GET /submission/<int:submission_id>
\* SELECT ... FROM submissions s JOIN assignments a
\*   ON a.assignment_id = s.assignment_id WHERE s.submission_id = %s
get_submission_by_id(w, submission_id, db_ok) ==
    LET rows == {s \in SubmissionById(w, submission_id) :
                    AssignmentById(w, s.assignment_id) # {}}
        r    == CHOOSE s \in rows : TRUE
    IN  IF ~db_ok
        THEN Response(500, "database error", NULL, NULL, <<Step("select", FALSE, w)>>)
        ELSE IF rows = {}
        THEN Response(404, "Submission not found.", NULL, NULL, <<>>)
        ELSE Response(200, IF IsNull(r.marks) THEN "submitted" ELSE "evaluated",
                      Some(r.submission_id), r.file_url, <<>>)

\* A JSON value of the request body: null, a string or a number.
JsonNull == [kind |-> "null", text |-> <<>>, num |-> 0]

JsonStr(s) == [kind |-> "str", text |-> s, num |-> 0]

JsonNum(n) == [kind |-> "num", text |-> <<>>, num |-> n]

\* true and false: Python bools, which float() turns into 1.0 and 0.0
JsonBool(b) == [kind |-> "bool", text |-> <<>>, num |-> IF b THEN 1 ELSE 0]

\* float(marks): whether it raises, and its value otherwise
FloatParses(j) == j.kind \in {"num", "bool"} \/ (j.kind = "str" /\ IntParses(j.text))

FloatValue(j) == IF j.kind \in {"num", "bool"} THEN j.num ELSE IntValue(j.text)

\* POST /teacher/submission/<int:submission_id>/evaluate
evaluate_submission(w, submission_id, data, db_ok) ==
    LET marks    == Val(data).marks
        feedback == FormText(Val(data).feedback)
        w1       == SqlUpdateMarks(w, FloatValue(marks), OrNone(feedback), submission_id)
    IN  IF IsNull(data)
        THEN Response(400, "No JSON body.", NULL, NULL, <<>>)
        ELSE IF marks.kind = "null" \/ (marks.kind = "str" /\ Len(marks.text) = 0)
        THEN Response(400, "Marks are required.", NULL, NULL, <<>>)
        ELSE IF ~FloatParses(marks)
        THEN Response(400, "Marks must be a number.", NULL, NULL, <<>>)
        ELSE IF FloatValue(marks) < 0
        THEN Response(400, "Marks cannot be negative.", NULL, NULL, <<>>)
        ELSE IF ~db_ok
        THEN Response(500, "database error", NULL, NULL, <<Step("update", FALSE, w)>>)
        ELSE IF SubmissionById(w, submission_id) = {}
        THEN Response(404, "Submission not found.", NULL, NULL, <<Step("update", TRUE, w)>>)
        ELSE Response(200, "Evaluation submitted successfully.", Some(submission_id), NULL,
                      <<Step("update", TRUE, w1)>>)

----------------------------------------------------------------------------
(* Requests the clients send *)

DigitChar(n) ==
    CASE n = 0 -> "0" [] n = 1 -> "1" [] n = 2 -> "2" [] n = 3 -> "3"
      [] n = 4 -> "4" [] n = 5 -> "5" [] n = 6 -> "6" [] n = 7 -> "7"
      [] n = 8 -> "8" [] n = 9 -> "9"

File(filename, size) == [filename |-> filename, size |-> size]

\* no file part, an empty filename, a named file of zero bytes, named files
FileParts ==
    {NULL, Some(File(<<>>, 0)), Some(File(<<"a">>, 0)), Some(File(<<"..", "b">>, 1))}

AssignmentIdFields ==
    {NULL, Some(<<"x">>), Some(<<"0">>), Some(<<"-", "1">>)}
    \cup {Some(<<DigitChar(n)>>) : n \in 1..MaxAssignments}

CommentFields == {NULL, Some(<<"c", " ">>)}

SubmissionIds == 1..MaxSubmissions

AssignmentIds == 1..MaxAssignments

AssignmentForm(title, deadline, max_marks) ==
    [title |-> title, description |-> NULL, deadline |-> deadline,
     max_marks |-> max_marks, subject |-> Some(<<"m">>)]

\* a complete form, and the forms with one field missing or malformed
AssignmentForms ==
    {AssignmentForm(Some(<<"T", " ">>), Some(<<"D">>), Some(<<"9">>)),
     AssignmentForm(Some(<<" ">>), Some(<<"D">>), Some(<<"9">>)),
     AssignmentForm(Some(<<"T">>), NULL, Some(<<"9">>)),
     AssignmentForm(Some(<<"T">>), Some(<<"D">>), NULL),
     AssignmentForm(Some(<<"T">>), Some(<<"D">>), Some(<<"x">>))}

UpdateForm(title, description, deadline, max_marks, subject) ==
    [title |-> title, description |-> description, deadline |-> deadline,
     max_marks |-> max_marks, subject |-> subject]

\* a form that changes every field, one with a blank title, one that omits
\* description and subject, and one that carries the title alone
UpdateForms ==
    {UpdateForm(Some(<<"U">>), Some(<<"d">>), Some(<<"E">>), Some(<<"8">>), Some(<<"n">>)),
     UpdateForm(Some(<<" ">>), Some(<<"d">>), Some(<<"E">>), Some(<<"8">>), Some(<<"n">>)),
     UpdateForm(Some(<<"U">>), NULL, Some(<<"E">>), Some(<<"8">>), NULL),
     UpdateForm(Some(<<"U">>), NULL, NULL, NULL, NULL)}

AssignmentFileParts == {NULL, Some(File(<<>>, 0)), Some(File(<<"a">>, 1))}

EvaluateBodies ==
    {NULL} \cup
    {Some(b) : b \in
        [marks    : {JsonNull, JsonStr(<<"x">>), JsonBool(TRUE),
                     JsonNum(0 - 1), JsonNum(0), JsonNum(5)},
         feedback : {NULL, Some(<<"f">>)}]}

----------------------------------------------------------------------------
(* The state machine: one action per route *)

EmptyWorld ==
    [submissions |-> {}, assignments |-> {}, storage |-> {},
     next_submission_id |-> 1, next_assignment_id |-> 1]

\* No request is being answered.
Idle == [op |-> "none"]

Init ==
    /\ submissions = {}
    /\ assignments = {}
    /\ storage = {}
    /\ next_submission_id = 1
    /\ next_assignment_id = 1
    /\ now = 0
    /\ requests = 0
    /\ last = Idle
    /\ inflight = <<>>

\* The server takes the next request when the previous one is answered.
Ready == last = Idle /\ requests < MaxRequests

\* Serve one request: the stores become what the handler left, and the
\* request, the stores before it and the response are remembered until the
\* response is sent.
Serve(op, req, r) ==
    LET w == After(World, r)
    IN  /\ w.next_submission_id <= MaxSubmissions + 1
        /\ w.next_assignment_id <= MaxAssignments + 1
        /\ submissions' = w.submissions
        /\ assignments' = w.assignments
        /\ storage' = w.storage
        /\ next_submission_id' = w.next_submission_id
        /\ next_assignment_id' = w.next_assignment_id
        /\ requests' = requests + 1
        /\ last' = [op |-> op, req |-> req, pre |-> World, resp |-> r]
        /\ UNCHANGED <<now, inflight>>

CreateSubmission ==
    Ready /\
    \E student_id \in Students, assignment_id \in AssignmentIdFields,
       comments \in CommentFields, file \in FileParts,
       up_ok \in BOOLEAN, db_ok \in BOOLEAN :
        /\ up_ok \/ (~Falsy(assignment_id) /\ HasNamedFile(file))
        /\ db_ok \/ (up_ok /\ ~Falsy(assignment_id) /\ IntParses(Val(assignment_id)))
        /\ Serve("create_submission",
              [student_id |-> student_id, assignment_id |-> assignment_id,
               comments |-> comments, file |-> file],
              create_submission(World, now, student_id, assignment_id, comments, file, up_ok, db_ok))

UpdateSubmission ==
    Ready /\
    \E student_id \in Students, submission_id \in SubmissionIds, file \in FileParts,
       up_ok \in BOOLEAN, db_ok \in BOOLEAN, rm_ok \in BOOLEAN :
        /\ up_ok \/ HasNamedFile(file)
        /\ db_ok \/ up_ok
        /\ rm_ok \/ (up_ok /\ db_ok /\ SqlSelectSubmissionFile(World, submission_id) # {})
        /\ Serve("update_submission",
              [student_id |-> student_id, submission_id |-> submission_id, file |-> file],
              update_submission(World, now, student_id, submission_id, file, up_ok, db_ok, rm_ok))

DeleteSubmission ==
    Ready /\
    \E student_id \in Students, submission_id \in SubmissionIds,
       db_fail \in 0..2, rm_ok \in BOOLEAN :
        /\ rm_ok \/ (db_fail # 1 /\ SqlSelectOwnSubmissionFile(World, submission_id, student_id) # {})
        /\ Serve("delete_submission",
              [student_id |-> student_id, submission_id |-> submission_id],
              delete_submission(World, student_id, submission_id, db_fail, rm_ok))

CreateAssignment ==
    Ready /\
    \E teacher_id \in Teachers, form \in AssignmentForms, file \in AssignmentFileParts,
       up_ok \in BOOLEAN, db_ok \in BOOLEAN :
        /\ up_ok \/ HasNamedFile(file)
        /\ db_ok \/ up_ok
        /\ Serve("create_assignment",
              [teacher_id |-> teacher_id, form |-> form, file |-> file],
              create_assignment(World, now, teacher_id, form, file, up_ok, db_ok))

UpdateAssignment ==
    Ready /\
    \E teacher_id \in Teachers, assignment_id \in AssignmentIds, form \in UpdateForms,
       file \in AssignmentFileParts, up_ok \in BOOLEAN, db_ok \in BOOLEAN :
        /\ up_ok \/ (HasNamedFile(file) /\ Len(FormText(form.title)) # 0)
        /\ db_ok \/ (up_ok /\ Len(FormText(form.title)) # 0)
        /\ Serve("update_assignment",
              [teacher_id |-> teacher_id, assignment_id |-> assignment_id,
               form |-> form, file |-> file],
              update_assignment(World, now, teacher_id, assignment_id, form, file, up_ok, db_ok))

DeleteAssignment ==
    Ready /\
    \E teacher_id \in Teachers, assignment_id \in AssignmentIds, db_fail \in 0..2 :
      \E rm_failed \in SUBSET DeleteAssignmentTargets(World, assignment_id) :
        /\ db_fail = 1 => rm_failed = {}
        /\ Serve("delete_assignment",
              [teacher_id |-> teacher_id, assignment_id |-> assignment_id,
               rm_failed |-> rm_failed],
              delete_assignment(World, teacher_id, assignment_id, db_fail, rm_failed))

EvaluateSubmission ==
    Ready /\
    \E submission_id \in SubmissionIds, data \in EvaluateBodies, db_ok \in BOOLEAN :
        /\ db_ok \/ ~IsNull(data)
        /\ Serve("evaluate_submission",
              [submission_id |-> submission_id, data |-> data],
              evaluate_submission(World, submission_id, data, db_ok))

GetSubmission ==
    Ready /\
    \E submission_id \in SubmissionIds, db_ok \in BOOLEAN :
        Serve("get_submission_by_id",
              [submission_id |-> submission_id],
              get_submission_by_id(World, submission_id, db_ok))

GetStudentDashboard ==
    Ready /\
    \E student_id \in Students, db_ok \in BOOLEAN :
        Serve("get_student_dashboard",
              [student_id |-> student_id],
              get_student_dashboard(World, student_id, db_ok))

\* The response is sent and the request context is popped.
Respond ==
    /\ last # Idle
    /\ last' = Idle
    /\ UNCHANGED <<submissions, assignments, storage, next_submission_id,
                   next_assignment_id, now, requests, inflight>>

\* Time passes between requests.
Tick ==
    /\ last = Idle
    /\ now < MaxTime
    /\ now' = now + 1
    /\ UNCHANGED <<submissions, assignments, storage, next_submission_id,
                   next_assignment_id, requests, last, inflight>>

Next ==
    \/ CreateSubmission
    \/ UpdateSubmission
    \/ DeleteSubmission
    \/ CreateAssignment
    \/ UpdateAssignment
    \/ DeleteAssignment
    \/ EvaluateSubmission
    \/ GetSubmission
    \/ GetStudentDashboard
    \/ Respond
    \/ Tick

Spec == Init /\ [][Next]_vars

----------------------------------------------------------------------------
(* Vocabulary of the properties: the request being answered *)

Serving(op) == last.op = op

Steps == last.resp.steps

\* Some call of this name raised.
CallFailed(call) == \E i \in 1..Len(Steps) : Steps[i].call = call /\ ~Steps[i].ok

\* No call to a store raised.
NoStoreFailure == \A i \in 1..Len(Steps) : Steps[i].ok

\* The rows of the addressed submission before the request, and those of
\* them that belong to the requesting student.
AddressedRows == SubmissionById(last.pre, last.req.submission_id)

OwnRows == {r \in AddressedRows : r.student_id = last.req.student_id}

\* The object a row's file reference names.
FileObject(bucket, row) == Object(bucket, UrlFileName(Val(row.file_url)))

StoresUnchanged == World = last.pre

----------------------------------------------------------------------------
(* C1: a Replace whose student_id is not the owner of submission_id leaves  *)
(* the submission row unchanged and the blob the row references in the      *)
(* store.                                                                   *)

C1_ReplaceByNonOwnerTouchesNothing ==
    (Serving("update_submission") /\ AddressedRows # {} /\ OwnRows = {})
    => /\ submissions = last.pre.submissions
       /\ \A r \in AddressedRows :
            (~IsNull(r.file_url) /\ FileObject(BUCKET_SUBMISSIONS, r) \in last.pre.storage)
            => FileObject(BUCKET_SUBMISSIONS, r) \in storage

----------------------------------------------------------------------------
(* C2: an assignment Delete by a teacher who does not own the assignment    *)
(* deletes no assignment row and no submission row and removes no blob.     *)

C2_DeleteAssignmentByNonOwnerAffectsNothing ==
    (/\ Serving("delete_assignment")
     /\ \E a \in AssignmentById(last.pre, last.req.assignment_id) :
            a.teacher_id # last.req.teacher_id)
    => /\ assignments = last.pre.assignments
       /\ submissions = last.pre.submissions
       /\ storage = last.pre.storage

----------------------------------------------------------------------------
(* C3: a Replace on a (submission_id, student_id) pair with no row returns  *)
(* NotFound, does not report success, and leaves rows and blobs as they     *)
(* were.                                                                    *)

C3_ReplaceOfMissingRowIsNotFound ==
    (/\ Serving("update_submission")
     /\ HasNamedFile(last.req.file)
     /\ OwnRows = {}
     /\ NoStoreFailure)
    => /\ last.resp.status = 404
       /\ ~last.resp.success
       /\ StoresUnchanged

----------------------------------------------------------------------------
(* C4: a submission Create whose assignment_id is missing, not an integer   *)
(* or not a positive integer returns 400, and no blob has been uploaded and *)
(* no submission row inserted.  Stated for requests that meet no store      *)
(* failure.                                                                 *)

InvalidAssignmentId(field) ==
    \/ Falsy(field)
    \/ ~IntParses(Val(field))
    \/ IntValue(Val(field)) <= 0

C4_CreateValidatesAssignmentIdFirst ==
    (/\ Serving("create_submission")
     /\ InvalidAssignmentId(last.req.assignment_id)
     /\ NoStoreFailure)
    => /\ last.resp.status = 400
       /\ storage = last.pre.storage
       /\ submissions = last.pre.submissions

----------------------------------------------------------------------------
(* C5: a submission Create with an empty file payload (no file part, an     *)
(* empty filename, or a named file of zero bytes) returns 400, writes no    *)
(* submission row and uploads no blob.  Stated for requests that are valid  *)
(* otherwise and meet no store failure.                                     *)

EmptyPayload(file) ==
    \/ IsNull(file)
    \/ Len(Val(file).filename) = 0
    \/ Val(file).size = 0

C5_CreateRejectsEmptyPayload ==
    (/\ Serving("create_submission")
     /\ EmptyPayload(last.req.file)
     /\ ~InvalidAssignmentId(last.req.assignment_id)
     /\ NoStoreFailure)
    => /\ last.resp.status = 400
       /\ submissions = last.pre.submissions
       /\ storage = last.pre.storage

----------------------------------------------------------------------------
(* C6: when the blob upload of a submission Create fails, the request       *)
(* returns the storage error (500) and the set of submission rows is the    *)
(* one before the request.                                                  *)

C6_CreateUploadFailureLeavesRows ==
    (Serving("create_submission") /\ CallFailed("upload"))
    => /\ last.resp.status = 500
       /\ last.resp.message = "Storage upload failed"
       /\ submissions = last.pre.submissions
       /\ Len(Steps) = 1

C6_Witness ==
    /\ Serving("create_submission")
    /\ CallFailed("upload")
    /\ ~InvalidAssignmentId(last.req.assignment_id)
    /\ ForeignKeyHolds(last.pre, IntValue(Val(last.req.assignment_id)))
    /\ last.resp.status = 500

----------------------------------------------------------------------------
(* C7: a successful submission Create adds exactly one submission row, for  *)
(* the given assignment and student, whose file reference is the public URL *)
(* of the blob just uploaded, whose marks and feedback are null and whose   *)
(* derived status is `submitted`; the response carries that row's           *)
(* identifier and that URL.                                                 *)

NewRows == submissions \ last.pre.submissions

C7_CreateAddsOneSubmittedRow ==
    (Serving("create_submission") /\ last.resp.status = 201)
    => /\ last.pre.submissions \subseteq submissions
       /\ Cardinality(NewRows) = 1
       /\ \A r \in NewRows :
            /\ SubmissionById(last.pre, r.submission_id) = {}
            /\ r.student_id = last.req.student_id
            /\ IntParses(Val(last.req.assignment_id))
            /\ r.assignment_id = IntValue(Val(last.req.assignment_id))
            /\ ~IsNull(r.file_url)
            /\ Val(r.file_url) = get_public_url(BUCKET_SUBMISSIONS, UrlFileName(Val(r.file_url)))
            /\ FileObject(BUCKET_SUBMISSIONS, r) \in storage \ last.pre.storage
            /\ storage = last.pre.storage \cup {FileObject(BUCKET_SUBMISSIONS, r)}
            /\ IsNull(r.marks)
            /\ IsNull(r.feedback)
            /\ submission_status({r}) = "submitted"
            /\ last.resp.id = Some(r.submission_id)
            /\ last.resp.file_url = r.file_url

C7_Witness ==
    /\ Serving("create_submission")
    /\ last.resp.status = 201
    /\ last.pre.submissions # {}
    /\ Cardinality(submissions) = 2

----------------------------------------------------------------------------
(* C8: when the upload of the new blob in a Replace fails, the submission   *)
(* row is unchanged, the blob it referenced is still in the store (no store *)
(* is touched at all), and the request returns an error.                    *)

C8_ReplaceUploadFailureTouchesNothing ==
    (Serving("update_submission") /\ CallFailed("upload"))
    => /\ StoresUnchanged
       /\ ~last.resp.success
       /\ last.resp.status = 500
       /\ \A r \in AddressedRows :
            /\ r \in submissions
            /\ (~IsNull(r.file_url) /\ FileObject(BUCKET_SUBMISSIONS, r) \in last.pre.storage)
               => FileObject(BUCKET_SUBMISSIONS, r) \in storage

C8_Witness ==
    /\ Serving("update_submission")
    /\ CallFailed("upload")
    /\ OwnRows # {}
    /\ \A r \in OwnRows : FileObject(BUCKET_SUBMISSIONS, r) \in storage

----------------------------------------------------------------------------
(* C9: in a Replace by the owning student the previous blob is deleted only *)
(* after the row update has committed, in no state does the row reference a *)
(* blob that the Replace has already removed, and a failure of the deletion *)
(* is swallowed: the request returns success and the row references the new *)
(* URL.                                                                     *)

\* The calls of the request up to the i-th removed the object.
RemovedBy(i, obj) ==
    \E j \in 1..i : /\ Steps[j].call = "remove"
                    /\ Steps[j].ok
                    /\ obj \in (IF j = 1 THEN last.pre ELSE Steps[j - 1].w).storage
                    /\ obj \notin Steps[j].w.storage

C9_RemovalFollowsCommit ==
    (Serving("update_submission") /\ OwnRows # {})
    => \A i \in 1..Len(Steps) :
          Steps[i].call = "remove"
          => \E j \in 1..(i - 1) : Steps[j].call = "update" /\ Steps[j].ok

C9_FailedRemovalIsSwallowed ==
    (Serving("update_submission") /\ OwnRows # {} /\ CallFailed("remove"))
    => /\ last.resp.status = 200
       /\ \A r \in SubmissionById(World, last.req.submission_id) :
            r.file_url = last.resp.file_url

C9_RowNeverReferencesRemovedBlob ==
    (Serving("update_submission") /\ OwnRows # {})
    => \A i \in 1..Len(Steps) :
          \A r \in SubmissionById(Steps[i].w, last.req.submission_id) :
             ~IsNull(r.file_url) => ~RemovedBy(i, FileObject(BUCKET_SUBMISSIONS, r))

C9_ReplaceDeletesOldBlobAfterCommit ==
    /\ C9_RemovalFollowsCommit
    /\ C9_FailedRemovalIsSwallowed
    /\ C9_RowNeverReferencesRemovedBlob

----------------------------------------------------------------------------
(* C10: a submission Delete on a (submission_id, student_id) pair that      *)
(* matches no row (no such id, or the id of another student's row) returns  *)
(* NotFound (404), or the database error (500) when the lookup itself       *)
(* fails, and deletes no row and removes no blob.                           *)

C10_DeleteOfMissingRowIsNotFound ==
    (Serving("delete_submission") /\ OwnRows = {})
    => /\ last.resp.status = IF CallFailed("select") THEN 500 ELSE 404
       /\ ~last.resp.success
       /\ submissions = last.pre.submissions
       /\ storage = last.pre.storage
       /\ StoresUnchanged

C10_Witness ==
    /\ Serving("delete_submission")
    /\ AddressedRows # {}
    /\ OwnRows = {}
    /\ last.resp.status = 404
    /\ \A r \in AddressedRows : FileObject(BUCKET_SUBMISSIONS, r) \in storage

----------------------------------------------------------------------------
(* C11: in a submission Delete by the owner, a failure to remove the row's  *)
(* blob is swallowed: when the database itself does not fail, the row is    *)
(* deleted and the request returns success (200).                           *)

C11_DeleteSwallowsRemovalFailure ==
    (/\ Serving("delete_submission")
     /\ OwnRows # {}
     /\ CallFailed("remove")
     /\ ~CallFailed("select")
     /\ ~CallFailed("delete"))
    => /\ last.resp.status = 200
       /\ last.resp.success
       /\ SubmissionById(World, last.req.submission_id) = {}
       /\ submissions = last.pre.submissions \ OwnRows
       /\ storage = last.pre.storage

C11_Witness ==
    /\ Serving("delete_submission")
    /\ OwnRows # {}
    /\ CallFailed("remove")
    /\ last.resp.status = 200
    /\ \A r \in OwnRows : FileObject(BUCKET_SUBMISSIONS, r) \in storage

----------------------------------------------------------------------------
(* C12: calling submission Delete twice in sequence with the same           *)
(* (submission_id, student_id): when the first call returns success, the    *)
(* second call, made on the stores the first one left, returns NotFound     *)
(* (404) and changes neither rows nor blobs.                                *)

\* The same Delete again, on the stores as they are now.
DeleteAgain(db_fail, rm_ok) ==
    delete_submission(World, last.req.student_id, last.req.submission_id, db_fail, rm_ok)

C12_FirstDeleteSucceeds ==
    (/\ Serving("delete_submission")
     /\ OwnRows # {}
     /\ ~CallFailed("select")
     /\ ~CallFailed("delete"))
    => last.resp.status = 200

C12_SecondDeleteIsNotFound ==
    /\ C12_FirstDeleteSucceeds
    /\ (Serving("delete_submission") /\ last.resp.status = 200)
       => /\ OwnRows # {}
          /\ \A db_fail \in {0, 2}, rm_ok \in BOOLEAN :
               /\ DeleteAgain(db_fail, rm_ok).status = 404
               /\ ~DeleteAgain(db_fail, rm_ok).success
               /\ After(World, DeleteAgain(db_fail, rm_ok)) = World
          /\ After(World, DeleteAgain(1, TRUE)) = World

C12_Witness ==
    /\ Serving("delete_submission")
    /\ last.resp.status = 200
    /\ OwnRows # {}
    /\ submissions # {}
    /\ storage # {}
    /\ DeleteAgain(0, TRUE).status = 404

----------------------------------------------------------------------------
(* C13: for a submission whose row references blob B0, a successful Replace *)
(* by the owner (uploading B1) followed by a successful Delete by the same  *)
(* student, with no blob-store failure, ends with neither B0 nor B1 in the  *)
(* store and the submission row absent.                                     *)

\* The owner's Delete that follows the Replace being answered, with no
\* failure, and the stores it leaves.
DeleteAfterReplace ==
    delete_submission(World, last.req.student_id, last.req.submission_id, 0, TRUE)

AfterReplaceAndDelete == After(World, DeleteAfterReplace)

\* The blob the Replace being answered uploaded.
NewObject == Object(BUCKET_SUBMISSIONS, UrlFileName(Val(last.resp.file_url)))

C13_ReplaceThenDeleteLeavesNoBlob ==
    (/\ Serving("update_submission")
     /\ OwnRows # {}
     /\ last.resp.status = 200
     /\ NoStoreFailure)
    => /\ DeleteAfterReplace.status = 200
       /\ SubmissionById(AfterReplaceAndDelete, last.req.submission_id) = {}
       /\ NewObject \notin AfterReplaceAndDelete.storage
       /\ \A r \in OwnRows :
            FileObject(BUCKET_SUBMISSIONS, r) \notin AfterReplaceAndDelete.storage

C13_Witness ==
    /\ Serving("update_submission")
    /\ OwnRows # {}
    /\ last.resp.status = 200
    /\ NoStoreFailure
    /\ \A r \in OwnRows :
         /\ FileObject(BUCKET_SUBMISSIONS, r) \in last.pre.storage
         /\ FileObject(BUCKET_SUBMISSIONS, r) # NewObject
    /\ NewObject \in storage
    /\ DeleteAfterReplace.status = 200

----------------------------------------------------------------------------
(* C14: assignment delete cascades: after the owning teacher's Delete of an *)
(* assignment with N submissions returns success, the assignment row and    *)
(* the N submission rows are absent and a fetch of each of those N          *)
(* submission ids returns NotFound (404).                                   *)

\* The rows of the addressed assignment before the request, and its
\* submissions.
AddressedAssignments == AssignmentById(last.pre, last.req.assignment_id)

SubmissionsOfAssignment == SqlSelectSubmissionFiles(last.pre, last.req.assignment_id)

ByOwningTeacher ==
    /\ AddressedAssignments # {}
    /\ \A a \in AddressedAssignments : a.teacher_id = last.req.teacher_id

C14_AssignmentDeleteCascades ==
    (Serving("delete_assignment") /\ ByOwningTeacher /\ last.resp.status = 200)
    => /\ AssignmentById(World, last.req.assignment_id) = {}
       /\ \A s \in SubmissionsOfAssignment :
            /\ SubmissionById(World, s.submission_id) = {}
            /\ get_submission_by_id(World, s.submission_id, TRUE).status = 404

C14_Witness ==
    /\ Serving("delete_assignment")
    /\ ByOwningTeacher
    /\ last.resp.status = 200
    /\ Cardinality(SubmissionsOfAssignment) = 2
    /\ \A s \in SubmissionsOfAssignment :
         get_submission_by_id(last.pre, s.submission_id, TRUE).status = 200

----------------------------------------------------------------------------
(* C15: during the owning teacher's assignment Delete the blob deletions    *)
(* are best-effort and independent: whatever subset of the blobs (the       *)
(* attachment and each submission's file) fails to be removed, the removal  *)
(* of every other blob is attempted, the submission rows and the assignment *)
(* row are deleted, and, the database not failing, the request returns      *)
(* success.                                                                 *)

RemoveCalls == {i \in 1..Len(Steps) : Steps[i].call = "remove"}

\* The rows of the request that carry a file reference.
RowsWithFile ==
    Cardinality({a \in AddressedAssignments : ~IsNull(a.file_url)})
    + Cardinality({s \in SubmissionsOfAssignment : ~IsNull(s.file_url)})

C15_BlobDeletionsAreIndependent ==
    (/\ Serving("delete_assignment")
     /\ ByOwningTeacher
     /\ ~CallFailed("select")
     /\ ~CallFailed("delete"))
    => /\ last.resp.status = 200
       /\ Cardinality(RemoveCalls) = RowsWithFile
       /\ \A obj \in DeleteAssignmentTargets(last.pre, last.req.assignment_id) :
            IF obj \in last.req.rm_failed
            THEN obj \in last.pre.storage => obj \in storage
            ELSE obj \notin storage
       /\ AssignmentById(World, last.req.assignment_id) = {}
       /\ SqlSelectSubmissionFiles(World, last.req.assignment_id) = {}

C15_Witness ==
    /\ Serving("delete_assignment")
    /\ ByOwningTeacher
    /\ last.resp.status = 200
    /\ Cardinality(RemoveCalls) >= 2
    /\ \E failed \in last.req.rm_failed : failed \in storage
    /\ \E obj \in DeleteAssignmentTargets(last.pre, last.req.assignment_id) :
         /\ obj \notin last.req.rm_failed
         /\ obj \in last.pre.storage
         /\ obj \notin storage

----------------------------------------------------------------------------
(* C16: after a successful Evaluate(submission_id, m), m >= 0, the stored   *)
(* marks of the submission equal m and its derived status is `evaluated`,   *)
(* also when the submission already had marks (overwrite); the number of    *)
(* submission rows is unchanged and no other row or column changes.         *)

EvaluatedMarks == FloatValue(Val(last.req.data).marks)

C16_EvaluateOverwritesMarks ==
    (Serving("evaluate_submission") /\ last.resp.status = 200)
    => /\ EvaluatedMarks >= 0
       /\ AddressedRows # {}
       /\ Cardinality(submissions) = Cardinality(last.pre.submissions)
       /\ \A r \in last.pre.submissions \ AddressedRows : r \in submissions
       /\ \A r \in AddressedRows :
            /\ [r EXCEPT !.marks = Some(EvaluatedMarks),
                         !.feedback = OrNone(FormText(Val(last.req.data).feedback))]
               \in submissions
            /\ submission_status(SubmissionById(World, r.submission_id)) = "evaluated"
       /\ storage = last.pre.storage
       /\ assignments = last.pre.assignments

C16_Witness ==
    /\ Serving("evaluate_submission")
    /\ last.resp.status = 200
    /\ \E r \in AddressedRows :
         /\ ~IsNull(r.marks)
         /\ Val(r.marks) # EvaluatedMarks
    /\ \A r \in SubmissionById(World, last.req.submission_id) :
         r.marks = Some(EvaluatedMarks)

----------------------------------------------------------------------------
(* C17: Evaluate with missing, non-numeric or negative marks returns 400,   *)
(* and Evaluate on a submission_id with no row returns 404; in both cases   *)
(* no marks or feedback change, and no stored marks value is ever negative. *)

\* The marks of the request body: missing (absent, null or ""), not a number
\* (a JSON boolean, or a string that is not the text of a number), negative.
MarksMissing(j) == j.kind = "null" \/ (j.kind = "str" /\ Len(j.text) = 0)

MarksNonNumeric(j) == j.kind = "bool" \/ (j.kind = "str" /\ ~IntParses(j.text))

MarksNegative(j) ==
    \/ j.kind = "num" /\ j.num < 0
    \/ j.kind = "str" /\ IntParses(j.text) /\ IntValue(j.text) < 0

InvalidMarks(j) == MarksMissing(j) \/ MarksNonNumeric(j) \/ MarksNegative(j)

C17_InvalidMarksAreRejected ==
    (/\ Serving("evaluate_submission")
     /\ ~IsNull(last.req.data)
     /\ InvalidMarks(Val(last.req.data).marks)
     /\ NoStoreFailure)
    => /\ last.resp.status = 400
       /\ StoresUnchanged

C17_MissingRowIsNotFound ==
    (/\ Serving("evaluate_submission")
     /\ ~IsNull(last.req.data)
     /\ ~InvalidMarks(Val(last.req.data).marks)
     /\ AddressedRows = {}
     /\ NoStoreFailure)
    => /\ last.resp.status = 404
       /\ StoresUnchanged

C17_NoNegativeMarks ==
    \A r \in submissions : ~IsNull(r.marks) => Val(r.marks) >= 0

C17_EvaluateRejectsInvalidMarks ==
    /\ C17_InvalidMarksAreRejected
    /\ C17_MissingRowIsNotFound
    /\ C17_NoNegativeMarks

----------------------------------------------------------------------------
(* C18: a successful Replace changes only the file reference and            *)
(* submitted_at of the submission: its marks, feedback, student comment,    *)
(* assignment and student are unchanged, every other row is unchanged, and  *)
(* an evaluated submission stays `evaluated`.                               *)

C18_ReplaceKeepsEvaluation ==
    (Serving("update_submission") /\ last.resp.status = 200)
    => /\ Cardinality(submissions) = Cardinality(last.pre.submissions)
       /\ \A r \in last.pre.submissions \ OwnRows : r \in submissions
       /\ \A r \in OwnRows :
            /\ [r EXCEPT !.file_url = last.resp.file_url, !.submitted_at = now]
               \in submissions
            /\ submission_status(SubmissionById(World, r.submission_id))
               = submission_status({r})

C18_Witness ==
    /\ Serving("update_submission")
    /\ last.resp.status = 200
    /\ \E r \in OwnRows :
         /\ ~IsNull(r.marks)
         /\ ~IsNull(r.feedback)
         /\ r.file_url # last.resp.file_url
         /\ r \notin submissions
    /\ submission_status(SubmissionById(World, last.req.submission_id)) = "evaluated"

----------------------------------------------------------------------------
(* C19: across any sequence of requests the derived status of a submission  *)
(* moves only absent -> submitted (by Create), submitted -> evaluated (by   *)
(* Evaluate), stays where it is (Replace, re-Evaluate, anything else), or   *)
(* becomes absent by a deletion of the row; it never goes from evaluated    *)
(* back to submitted, nor from absent to evaluated.                         *)

\* The status of submission_id in a submissions table.
StatusIn(rows, submission_id) ==
    IF \A r \in rows : r.submission_id # submission_id
    THEN "absent"
    ELSE submission_status({r \in rows : r.submission_id = submission_id})

StatusStep(submission_id) ==
    LET before == StatusIn(submissions, submission_id)
        after  == StatusIn(submissions', submission_id)
    IN  \/ after = before
        \/ /\ before = "absent"
           /\ after = "submitted"
           /\ last'.op = "create_submission"
        \/ /\ before = "submitted"
           /\ after = "evaluated"
           /\ last'.op = "evaluate_submission"
        \/ /\ after = "absent"
           /\ last'.op \in {"delete_submission", "delete_assignment"}

C19_StatusMovesForwardOnly ==
    [][\A submission_id \in SubmissionIds : StatusStep(submission_id)]_vars

C19_Witness ==
    /\ Serving("delete_submission")
    /\ last.resp.status = 200
    /\ StatusIn(last.pre.submissions, last.req.submission_id) = "evaluated"
    /\ StatusIn(submissions, last.req.submission_id) = "absent"

----------------------------------------------------------------------------
(* Concurrent requests.  Each worker runs one handler call by call; every   *)
(* call to the blob store or the database is one step.  A connection is a   *)
(* transaction at READ COMMITTED: a SELECT reads what is committed, an      *)
(* UPDATE of a row waits while another transaction holds that row, and the  *)
(* row is held from the UPDATE to the commit.                               *)

Workers == {1, 2}

NoRequest == [pc |-> "idle"]

\* The stores when the race starts: teacher t1 has created assignment 1 and
\* student s1 has submitted file "a" to it.
RaceWorld ==
    LET form == AssignmentForm(Some(<<"T">>), Some(<<"D">>), Some(<<"9">>))
        w1   == After(EmptyWorld, create_assignment(EmptyWorld, 0, "t1", form, NULL, TRUE, TRUE))
    IN  After(w1, create_submission(w1, 0, "s1", Some(<<"1">>), NULL, Some(File(<<"a">>, 1)), TRUE, TRUE))

RaceInit ==
    /\ submissions = RaceWorld.submissions
    /\ assignments = RaceWorld.assignments
    /\ storage = RaceWorld.storage
    /\ next_submission_id = RaceWorld.next_submission_id
    /\ next_assignment_id = RaceWorld.next_assignment_id
    /\ now = 0
    /\ requests = 0
    /\ last = Idle
    /\ inflight = [p \in Workers |-> NoRequest]

\* The worker moves on; nothing but its own record changes.
Goto(p, record) == inflight' = [inflight EXCEPT ![p] = record]

Finish(p, status) == Goto(p, [inflight[p] EXCEPT !.pc = "done", !.status = status])

\* Another transaction has updated the row, or deleted it, and not
\* committed yet.
RowHeld(p) ==
    \E q \in Workers \ {p} :
        \/ /\ inflight[q].pc = "commit"
           /\ inflight[q].submission_id = inflight[p].submission_id
           /\ SqlSelectOwnSubmissionFile(World, inflight[q].submission_id, inflight[q].student_id) # {}
        \/ /\ inflight[q].pc = "x_commit"
           /\ inflight[q].submission_id = inflight[p].submission_id
           /\ SubmissionById(World, inflight[q].submission_id) # {}

\* update_submission: the request arrives with a named file; the storage key
\* is built from the clock.
ReplaceBegin ==
    \E p \in Workers, student_id \in Students, submission_id \in SubmissionIds :
      \E file \in {f \in FileParts : HasNamedFile(f)} :
        /\ inflight[p].pc = "idle"
        /\ Goto(p, [pc            |-> "upload",
                    student_id    |-> student_id,
                    submission_id |-> submission_id,
                    filename      |-> StorageKey(now, Val(file).filename),
                    old           |-> {},
                    t             |-> now,
                    removed       |-> FALSE,
                    status        |-> 0])
        /\ UNCHANGED <<submissions, assignments, storage, next_submission_id,
                       next_assignment_id, now, requests, last>>

\* storage.from_('submissions').upload(...); get_public_url(filename)
ReplaceUpload ==
    \E p \in Workers, up_ok \in BOOLEAN :
        /\ inflight[p].pc = "upload"
        /\ IF UploadSucceeds(storage, BUCKET_SUBMISSIONS, inflight[p].filename, up_ok)
           THEN /\ storage' = StorageUpload(storage, BUCKET_SUBMISSIONS, inflight[p].filename)
                /\ Goto(p, [inflight[p] EXCEPT !.pc = "select"])
           ELSE /\ Finish(p, 500)
                /\ UNCHANGED storage
        /\ UNCHANGED <<submissions, assignments, next_submission_id,
                       next_assignment_id, now, requests, last>>

\* SELECT file_url FROM submissions WHERE submission_id = %s
ReplaceSelect ==
    \E p \in Workers, db_ok \in BOOLEAN :
        /\ inflight[p].pc = "select"
        /\ IF db_ok
           THEN Goto(p, [inflight[p] EXCEPT
                    !.pc = "update",
                    !.old = SqlSelectSubmissionFile(World, inflight[p].submission_id),
                    !.t = now])
           ELSE Finish(p, 500)
        /\ UNCHANGED <<submissions, assignments, storage, next_submission_id,
                       next_assignment_id, now, requests, last>>

\* UPDATE submissions SET file_url = %s, submitted_at = CURRENT_TIMESTAMP
\* WHERE submission_id = %s AND student_id = %s
ReplaceUpdate ==
    \E p \in Workers :
        /\ inflight[p].pc = "update"
        /\ ~RowHeld(p)
        /\ Goto(p, [inflight[p] EXCEPT !.pc = "commit"])
        /\ UNCHANGED <<submissions, assignments, storage, next_submission_id,
                       next_assignment_id, now, requests, last>>

\* conn.commit()
ReplaceCommit ==
    \E p \in Workers, db_ok \in BOOLEAN :
        /\ inflight[p].pc = "commit"
        /\ IF db_ok
           THEN /\ submissions' =
                     SqlUpdateSubmissionFile(World,
                         Some(get_public_url(BUCKET_SUBMISSIONS, inflight[p].filename)),
                         inflight[p].submission_id, inflight[p].student_id,
                         inflight[p].t).submissions
                /\ IF \E r \in inflight[p].old : ~IsNull(r.file_url)
                   THEN Goto(p, [inflight[p] EXCEPT !.pc = "remove"])
                   ELSE Finish(p, 200)
           ELSE /\ Finish(p, 500)
                /\ UNCHANGED submissions
        /\ UNCHANGED <<assignments, storage, next_submission_id,
                       next_assignment_id, now, requests, last>>

\* a removal that takes the file just uploaded for the old one
ReplaceRemoveTarget_NewBlob(p) == inflight[p].filename

\* old_fname = old["file_url"].split("/")[-1]
ReplaceRemoveTarget(p) ==
    UrlFileName(Val((CHOOSE r \in inflight[p].old : TRUE).file_url))

\* try: storage.from_('submissions').remove([old_fname]) except: pass
ReplaceRemove ==
    \E p \in Workers, rm_ok \in BOOLEAN :
        /\ inflight[p].pc = "remove"
        /\ storage' =
              IF rm_ok
              THEN StorageRemove(storage, BUCKET_SUBMISSIONS, ReplaceRemoveTarget(p))
              ELSE storage
        /\ Goto(p, [inflight[p] EXCEPT !.pc = "done", !.status = 200, !.removed = rm_ok])
        /\ UNCHANGED <<submissions, assignments, next_submission_id,
                       next_assignment_id, now, requests, last>>

RaceNext ==
    \/ ReplaceBegin
    \/ ReplaceUpload
    \/ ReplaceSelect
    \/ ReplaceUpdate
    \/ ReplaceCommit
    \/ ReplaceRemove
    \/ Tick

RaceSpec == RaceInit /\ [][RaceNext]_vars

----------------------------------------------------------------------------
(* C20: when two Replace calls by the owning student race on the same       *)
(* submission_id and both complete with success, the row's final file       *)
(* reference is the URL of exactly one of the two new uploads, and is never *)
(* the original URL, whatever the interleaving of their steps.              *)

ReplaceUrl(p) == get_public_url(BUCKET_SUBMISSIONS, inflight[p].filename)

\* Both workers have completed a Replace of the same submission, as its
\* owner, with success.
BothReplaced ==
    /\ \A p \in Workers :
         /\ inflight[p].pc = "done"
         /\ inflight[p].status = 200
         /\ SqlSelectOwnSubmissionFile(RaceWorld, inflight[p].submission_id, inflight[p].student_id) # {}
    /\ inflight[1].submission_id = inflight[2].submission_id

RacedRows == SubmissionById(World, inflight[1].submission_id)

C20_RowReferencesOneNewUrl ==
    BothReplaced
    => /\ RacedRows # {}
       /\ ReplaceUrl(1) # ReplaceUrl(2)
       /\ \A r \in RacedRows :
            r.file_url \in {Some(ReplaceUrl(1)), Some(ReplaceUrl(2))}

C20_RowLeavesOriginalUrl ==
    BothReplaced
    => \A r \in RacedRows :
         \A o \in SubmissionById(RaceWorld, inflight[1].submission_id) :
            r.file_url # o.file_url

C20_RacingReplacesOneWins ==
    /\ C20_RowReferencesOneNewUrl
    /\ C20_RowLeavesOriginalUrl

----------------------------------------------------------------------------
(* C21: the status derivation is total and consistent.  With no row the     *)
(* status is pending; a row with null marks is submitted; a row with        *)
(* non-null marks, 0 included, is evaluated; the result is exactly one of   *)
(* the three.  Wherever a row exists the three-branch expression of the     *)
(* student listings agrees with the two-branch expression and its           *)
(* `submitted` default of the teacher listings, and with the status a       *)
(* single-submission fetch returns.                                         *)

StudentStatus(r) == submission_status({r})

TeacherStatus(r) == row_to_submission_status(SqlStatusColumn(r))

C21_StatusIsTotalAndConsistent ==
    /\ submission_status({}) = "pending"
    /\ \A r \in submissions :
         /\ StudentStatus(r) \in {"submitted", "evaluated"}
         /\ StudentStatus(r) = "submitted" <=> IsNull(r.marks)
         /\ StudentStatus(r) = "evaluated" <=> ~IsNull(r.marks)
         /\ TeacherStatus(r) = StudentStatus(r)
    /\ (Serving("get_submission_by_id") /\ last.resp.status = 200)
       => /\ AddressedRows # {}
          /\ \A r \in AddressedRows : last.resp.message = StudentStatus(r)

\* A fetch has returned, as evaluated, a row whose marks are 0.
C21_Witness ==
    /\ Serving("get_submission_by_id")
    /\ last.resp.status = 200
    /\ last.resp.message = "evaluated"
    /\ \E r \in AddressedRows : r.marks = Some(0)

----------------------------------------------------------------------------
(* C22: storage keys are collision-resistant.  Any two uploads made by      *)
(* distinct Create or Replace requests, two requests of the same clock      *)
(* second with the same filename included, use distinct storage keys: a     *)
(* blob is referenced by at most one row at a time, and no upload is        *)
(* rejected (or overwrites) because of the blob of another request.         *)

\* The object the Create or Replace being answered asked the store to write.
RequestObject ==
    Object(BUCKET_SUBMISSIONS, StorageKey(now, Val(last.req.file).filename))

Uploading ==
    /\ Serving("create_submission") \/ Serving("update_submission")
    /\ \E i \in 1..Len(Steps) : Steps[i].call = "upload"

C22_UploadMeetsNoEarlierBlob ==
    Uploading => RequestObject \notin last.pre.storage

C22_BlobHasOneRow ==
    \A r1, r2 \in submissions :
        (r1 # r2 /\ ~IsNull(r1.file_url)) => r1.file_url # r2.file_url

C22_StorageKeysAreCollisionResistant ==
    /\ C22_UploadMeetsNoEarlierBlob
    /\ C22_BlobHasOneRow

----------------------------------------------------------------------------
(* Assignment Update: the vocabulary of C23..C26 *)

\* The assignment rows the request being answered addressed, as they were
\* before it, and those of them the requesting teacher owns.
UpdatedAssignments == AssignmentById(last.pre, last.req.assignment_id)

OwnAssignments == {a \in UpdatedAssignments : a.teacher_id = last.req.teacher_id}

\* The same rows after the request.
AssignmentsNow == AssignmentById(World, last.req.assignment_id)

AttachmentObject(a) == Object(BUCKET_ASSIGNMENTS, UrlFileName(Val(a.file_url)))

----------------------------------------------------------------------------
(* C23: replacing a row's file reference deletes the previous blob, for     *)
(* assignments as for submissions.  After a successful assignment Update by *)
(* the owner that supplies a new file, with no blob-store failure, the blob *)
(* the assignment row referenced before is no longer in the store.          *)

C23_UpdateRemovesPreviousAttachment ==
    (/\ Serving("update_assignment")
     /\ last.resp.status = 200
     /\ HasNamedFile(last.req.file)
     /\ NoStoreFailure)
    => \A a \in OwnAssignments :
         ~IsNull(a.file_url) => AttachmentObject(a) \notin storage

----------------------------------------------------------------------------
(* C24: assignment Update swaps the attachment only if a new file is        *)
(* provided.  A successful Update without a file part, or with an empty     *)
(* filename, leaves the file reference of the assignment row and the blob   *)
(* store unchanged; a successful Update by the owner with a file sets the   *)
(* file reference to the URL of the blob it has just uploaded.              *)

\* The URL of the blob the Update being answered uploaded.
UpdateUrl ==
    get_public_url(BUCKET_ASSIGNMENTS, StorageKey(now, Val(last.req.file).filename))

C24_UpdateSwapsAttachmentOnlyWithFile ==
    (Serving("update_assignment") /\ last.resp.status = 200)
    => /\ ~HasNamedFile(last.req.file)
          => /\ storage = last.pre.storage
             /\ \A a \in UpdatedAssignments :
                  \E b \in AssignmentsNow : b.file_url = a.file_url
             /\ \A b \in AssignmentsNow :
                  \E a \in UpdatedAssignments : b.file_url = a.file_url
       /\ (HasNamedFile(last.req.file) /\ OwnAssignments # {})
          => /\ AssignmentsNow # {}
             /\ \A b \in AssignmentsNow : b.file_url = Some(UpdateUrl)
             /\ last.resp.file_url = Some(UpdateUrl)
             /\ Object(BUCKET_ASSIGNMENTS, UrlFileName(UpdateUrl)) \in storage

\* The owner has updated, without a file, an assignment that has an
\* attachment, changing its other fields.
C24_Witness ==
    /\ Serving("update_assignment")
    /\ last.resp.status = 200
    /\ ~HasNamedFile(last.req.file)
    /\ \E a \in OwnAssignments : ~IsNull(a.file_url) /\ a \notin assignments
    /\ \A b \in AssignmentsNow : ~IsNull(b.file_url)

----------------------------------------------------------------------------
(* C25: assignment Update is a partial field replacement.  A request that   *)
(* carries the mandatory title and omits description, deadline, max_marks   *)
(* or subject succeeds and leaves each omitted field at the value stored    *)
(* before; a request without a title is answered 400 and changes nothing.   *)

Omitted(field) == IsNull(last.req.form[field])

C25_OmittedFieldsAreKept ==
    (/\ Serving("update_assignment")
     /\ Len(FormText(last.req.form.title)) # 0
     /\ OwnAssignments # {}
     /\ NoStoreFailure)
    => /\ last.resp.status = 200
       /\ \A b \in AssignmentsNow :
            \E a \in OwnAssignments :
               \A field \in {"description", "deadline", "max_marks", "subject"} :
                  Omitted(field) => b[field] = a[field]

C25_UpdateNeedsTitle ==
    (/\ Serving("update_assignment")
     /\ Len(FormText(last.req.form.title)) = 0)
    => /\ last.resp.status = 400
       /\ StoresUnchanged

C25_UpdateIsPartialReplacement ==
    /\ C25_OmittedFieldsAreKept
    /\ C25_UpdateNeedsTitle

----------------------------------------------------------------------------
(* C26: an assignment row is mutated only by its owning teacher.  After any *)
(* assignment Update whose teacher_id differs from the owning teacher of    *)
(* the row, every field of the row, its file reference and its owning       *)
(* teacher included, is unchanged.                                          *)

ForeignAssignments == UpdatedAssignments \ OwnAssignments

C26_UpdateByNonOwnerKeepsRow ==
    Serving("update_assignment")
    => /\ \A a \in ForeignAssignments : a \in assignments
       /\ ForeignAssignments # {} => assignments = last.pre.assignments

\* A teacher who does not own the assignment has sent a complete Update with
\* a new file, which was uploaded and answered 200.
C26_Witness ==
    /\ Serving("update_assignment")
    /\ ForeignAssignments # {}
    /\ last.resp.status = 200
    /\ HasNamedFile(last.req.file)
    /\ \A a \in ForeignAssignments : a.title # FormText(last.req.form.title)

----------------------------------------------------------------------------
(* C28: assignment Create validates before any side effect.  When title or  *)
(* deadline is missing, or max_marks is missing or is not a positive        *)
(* integer, the request returns 400, no blob has been uploaded to the       *)
(* assignments bucket and no assignment row has been inserted.              *)

InvalidAssignmentForm(form) ==
    \/ Len(FormText(form.title)) = 0
    \/ Falsy(form.deadline)
    \/ Falsy(form.max_marks)
    \/ ~IntParses(Val(form.max_marks))
    \/ IntValue(Val(form.max_marks)) <= 0

C28_Rejected ==
    /\ last.resp.status = 400
    /\ storage = last.pre.storage
    /\ assignments = last.pre.assignments

\* max_marks that is not a number is refused, but only after the upload
C28_NonNumericMarksLeaveNoBlob ==
    (/\ Serving("create_assignment")
     /\ ~Falsy(last.req.form.max_marks)
     /\ ~IntParses(Val(last.req.form.max_marks))
     /\ NoStoreFailure)
    => C28_Rejected

C28_CreateAssignmentValidatesFirst ==
    (/\ Serving("create_assignment")
     /\ InvalidAssignmentForm(last.req.form)
     /\ NoStoreFailure)
    => C28_Rejected

----------------------------------------------------------------------------
(* C29: when the row insert of a submission Create fails after a successful *)
(* upload, the request returns a persistence error (500), no submission row *)
(* is added, no cleanup or retry is attempted, and the uploaded blob stays  *)
(* in the store referenced by no row (an orphan).                           *)

\* The upload of the Create being answered succeeded and its insert failed.
InsertFailedAfterUpload ==
    /\ Serving("create_submission")
    /\ Len(Steps) >= 1
    /\ Steps[1].call = "upload"
    /\ Steps[1].ok
    /\ CallFailed("insert")

C29_InsertFailureKeepsBlob ==
    InsertFailedAfterUpload
    => /\ last.resp.status = 500
       /\ submissions = last.pre.submissions
       /\ Len(Steps) = 2
       /\ RequestObject \notin last.pre.storage
       /\ storage = last.pre.storage \cup {RequestObject}

C29_NoRowReferencesOrphan ==
    InsertFailedAfterUpload
    => \A r \in submissions : FileObject(BUCKET_SUBMISSIONS, r) # RequestObject

C29_InsertFailureLeavesOrphan ==
    /\ C29_InsertFailureKeepsBlob
    /\ C29_NoRowReferencesOrphan

----------------------------------------------------------------------------
(* Submission Create against assignment Delete.  Each worker runs           *)
(* create_submission or delete_assignment call by call, each in its own     *)
(* transaction at READ COMMITTED: what a transaction wrote is in the        *)
(* worker's record until its commit puts it in the tables.  The foreign key *)
(* of submissions.assignment_id makes an INSERT share-lock the assignment   *)
(* row it references and makes the DELETE of an assignment row look for     *)
(* submissions that reference it.  The blob removals of delete_assignment   *)
(* are taken as one step.                                                   *)

\* assignment ids of the requests: those of the bound and one that no
\* assignment has
CascadeAssignmentIds == AssignmentIds \cup {MaxAssignments + 1}

CascadeInit == RaceInit

Creating(q) == inflight[q].pc \in {"c_upload", "c_insert", "c_commit"}

\* Another transaction has deleted the assignment row and not committed yet.
AssignmentHeld(p) ==
    \E q \in Workers \ {p} :
        /\ inflight[q].pc = "d_commit"
        /\ inflight[q].assignment_id = inflight[p].assignment_id
        /\ inflight[q].owned

\* Another transaction has inserted a submission of the assignment and not
\* committed yet: its foreign key check holds a share lock on the row.
AssignmentShared(p) ==
    \E q \in Workers \ {p} :
        /\ inflight[q].pc = "c_commit"
        /\ inflight[q].assignment_id = inflight[p].assignment_id

\* Another transaction has deleted submission rows of the assignment and not
\* committed yet.
SubmissionsHeld(p) ==
    \E q \in Workers \ {p} :
        /\ inflight[q].pc \in {"d_assignment", "d_commit"}
        /\ inflight[q].assignment_id = inflight[p].assignment_id
        /\ inflight[q].deleted # {}

\* The submissions that reference the assignment, other than those the
\* transaction has deleted itself: the rows the foreign key finds when the
\* assignment row is deleted.
ReferencingRows(w, assignment_id, deleted) ==
    {r \in w.submissions \ deleted : r.assignment_id = assignment_id}

\* create_submission: the request arrives with a named file and a numeric
\* assignment_id.
CreateBegin ==
    \E p \in Workers, student_id \in Students, assignment_id \in CascadeAssignmentIds :
        /\ inflight[p].pc = "idle"
        /\ next_submission_id + Cardinality({q \in Workers : Creating(q)}) <= MaxSubmissions
        /\ Goto(p, [pc            |-> "c_upload",
                    student_id    |-> student_id,
                    assignment_id |-> assignment_id,
                    filename      |-> StorageKey(now, <<"b">>),
                    sid           |-> 0,
                    t             |-> now,
                    status        |-> 0])
        /\ UNCHANGED <<submissions, assignments, storage, next_submission_id,
                       next_assignment_id, now, requests, last>>

\* storage.from_('submissions').upload(...); get_public_url(filename)
CreateUpload ==
    \E p \in Workers, up_ok \in BOOLEAN :
        /\ inflight[p].pc = "c_upload"
        /\ IF UploadSucceeds(storage, BUCKET_SUBMISSIONS, inflight[p].filename, up_ok)
           THEN /\ storage' = StorageUpload(storage, BUCKET_SUBMISSIONS, inflight[p].filename)
                /\ Goto(p, [inflight[p] EXCEPT !.pc = "c_insert"])
           ELSE /\ Finish(p, 500)
                /\ UNCHANGED storage
        /\ UNCHANGED <<submissions, assignments, next_submission_id,
                       next_assignment_id, now, requests, last>>

\* INSERT INTO submissions ... RETURNING submission_id: the sequence gives
\* the id at once; the row is visible to others from the commit on.
CreateInsert ==
    \E p \in Workers, db_ok \in BOOLEAN :
        /\ inflight[p].pc = "c_insert"
        /\ ~AssignmentHeld(p)
        /\ IF db_ok /\ ForeignKeyHolds(World, inflight[p].assignment_id)
           THEN /\ Goto(p, [inflight[p] EXCEPT !.pc = "c_commit",
                                               !.sid = next_submission_id,
                                               !.t = now])
                /\ next_submission_id' = next_submission_id + 1
           ELSE /\ Finish(p, 500)
                /\ UNCHANGED next_submission_id
        /\ UNCHANGED <<submissions, assignments, storage,
                       next_assignment_id, now, requests, last>>

\* conn.commit()
CreateCommit ==
    \E p \in Workers, db_ok \in BOOLEAN :
        /\ inflight[p].pc = "c_commit"
        /\ IF db_ok
           THEN /\ submissions' =
                     SqlInsertSubmission([World EXCEPT !.next_submission_id = inflight[p].sid],
                         inflight[p].assignment_id, inflight[p].student_id,
                         Some(get_public_url(BUCKET_SUBMISSIONS, inflight[p].filename)),
                         NULL, inflight[p].t).submissions
                /\ Finish(p, 201)
           ELSE /\ Finish(p, 500)
                /\ UNCHANGED submissions
        /\ UNCHANGED <<assignments, storage, next_submission_id,
                       next_assignment_id, now, requests, last>>

\* delete_assignment: the request arrives.
CascadeBegin ==
    \E p \in Workers, teacher_id \in Teachers, assignment_id \in AssignmentIds :
        /\ inflight[p].pc = "idle"
        /\ Goto(p, [pc            |-> "d_select",
                    teacher_id    |-> teacher_id,
                    assignment_id |-> assignment_id,
                    targets       |-> {},
                    deleted       |-> {},
                    owned         |-> FALSE,
                    status        |-> 0])
        /\ UNCHANGED <<submissions, assignments, storage, next_submission_id,
                       next_assignment_id, now, requests, last>>

\* SELECT file_url FROM assignments ...; SELECT file_url FROM submissions ...
CascadeSelect ==
    \E p \in Workers, db_ok \in BOOLEAN :
        /\ inflight[p].pc = "d_select"
        /\ IF db_ok
           THEN Goto(p, [inflight[p] EXCEPT
                    !.pc = "d_remove",
                    !.targets = DeleteAssignmentTargets(World, inflight[p].assignment_id)])
           ELSE Finish(p, 500)
        /\ UNCHANGED <<submissions, assignments, storage, next_submission_id,
                       next_assignment_id, now, requests, last>>

\* try: storage.remove([fname]) except: pass, for the assignment file and
\* for each submission file
CascadeRemove ==
    \E p \in Workers, rm_ok \in BOOLEAN :
        /\ inflight[p].pc = "d_remove"
        /\ storage' = IF rm_ok THEN storage \ inflight[p].targets ELSE storage
        /\ Goto(p, [inflight[p] EXCEPT !.pc = "d_submissions"])
        /\ UNCHANGED <<submissions, assignments, next_submission_id,
                       next_assignment_id, now, requests, last>>

\* DELETE FROM submissions WHERE assignment_id = %s
CascadeSubmissions ==
    \E p \in Workers, db_ok \in BOOLEAN :
        /\ inflight[p].pc = "d_submissions"
        /\ ~SubmissionsHeld(p)
        /\ IF db_ok
           THEN Goto(p, [inflight[p] EXCEPT
                    !.pc = "d_assignment",
                    !.deleted = SqlSelectSubmissionFiles(World, inflight[p].assignment_id)])
           ELSE Finish(p, 500)
        /\ UNCHANGED <<submissions, assignments, storage, next_submission_id,
                       next_assignment_id, now, requests, last>>

\* DELETE FROM assignments WHERE assignment_id = %s AND teacher_id = %s
\* When a submission committed since references the row, the foreign key
\* either refuses the DELETE, and the transaction is lost, or deletes that
\* submission with it (ON DELETE CASCADE): the schema decides.
CascadeAssignment ==
    \E p \in Workers, db_ok \in BOOLEAN, cascades \in BOOLEAN :
        LET w     == inflight[p]
            owned == \E a \in AssignmentById(World, w.assignment_id) : a.teacher_id = w.teacher_id
            late  == ReferencingRows(World, w.assignment_id, w.deleted)
        IN  /\ w.pc = "d_assignment"
            /\ ~AssignmentHeld(p)
            /\ ~AssignmentShared(p)
            /\ IF ~db_ok \/ (owned /\ late # {} /\ ~cascades)
               THEN Finish(p, 500)
               ELSE Goto(p, [w EXCEPT !.pc = "d_commit",
                                      !.owned = owned,
                                      !.deleted = IF owned THEN @ \cup late ELSE @])
            /\ UNCHANGED <<submissions, assignments, storage, next_submission_id,
                           next_assignment_id, now, requests, last>>

\* conn.commit()
CascadeCommit ==
    \E p \in Workers, db_ok \in BOOLEAN :
        /\ inflight[p].pc = "d_commit"
        /\ IF db_ok
           THEN /\ submissions' = submissions \ inflight[p].deleted
                /\ assignments' =
                     SqlDeleteAssignment(World, inflight[p].assignment_id,
                                         inflight[p].teacher_id).assignments
                /\ Finish(p, 200)
           ELSE /\ Finish(p, 500)
                /\ UNCHANGED <<submissions, assignments>>
        /\ UNCHANGED <<storage, next_submission_id,
                       next_assignment_id, now, requests, last>>

CascadeNext ==
    \/ CreateBegin
    \/ CreateUpload
    \/ CreateInsert
    \/ CreateCommit
    \/ CascadeBegin
    \/ CascadeSelect
    \/ CascadeRemove
    \/ CascadeSubmissions
    \/ CascadeAssignment
    \/ CascadeCommit
    \/ Tick

CascadeSpec == CascadeInit /\ [][CascadeNext]_vars

----------------------------------------------------------------------------
(* C27: in every reachable state each submission row references exactly one *)
(* assignment row that exists.  No sequence or interleaving of submission   *)
(* Create and assignment Delete requests, a Create concurrent with the      *)
(* cascade included, leaves a submission row whose assignment is absent.    *)

----------------------------------------------------------------------------
(* C30: the upload-then-update sequence of Replace is not isolated.  There  *)
(* is an interleaving of two concurrent successful Replace calls on the     *)
(* same submission after which the blob uploaded by the losing request      *)
(* stays in the store referenced by no row; and in every interleaving the   *)
(* blob the row finally references is present in the store, and the         *)
(* original blob has been removed (one of the two requests read the         *)
(* original reference and its removal succeeded) unless a removal failed.   *)

ReplaceObject(p) == Object(BUCKET_SUBMISSIONS, inflight[p].filename)

\* A request read the original file reference as the old one and removed
\* that blob.
OriginalRemoved ==
    \E p \in Workers :
        /\ inflight[p].removed
        /\ \E r \in inflight[p].old :
             \E o \in SubmissionById(RaceWorld, inflight[p].submission_id) :
                r.file_url = o.file_url

----------------------------------------------------------------------------
(* C31: referential integrity between the two stores.  In every state in    *)
(* which no request is in flight, the file reference of every submission    *)
(* row names a blob present in the submissions bucket, and every non-null   *)
(* file reference of an assignment row names a blob present in the          *)
(* assignments bucket: after any sequence of Create, Replace, Update,       *)
(* Evaluate and Delete requests, those by non-owners and those in which a   *)
(* row operation fails after a blob was removed included.                   *)

\* Every file reference of w names a stored blob.
ReferencesResolve(w) ==
    /\ \A r \in w.submissions :
         /\ ~IsNull(r.file_url)
         /\ FileObject(BUCKET_SUBMISSIONS, r) \in w.storage
    /\ \A a \in w.assignments :
         ~IsNull(a.file_url) => AttachmentObject(a) \in w.storage

C31_FileReferencesResolve == (last = Idle) => ReferencesResolve(World)

\* The owner's Delete whose row DELETE fails after the blob was removed
\* leaves the references as sound as it found them.
C31_FailedDeleteKeepsBlob ==
    (/\ Serving("delete_submission")
     /\ CallFailed("delete")
     /\ ReferencesResolve(last.pre))
    => ReferencesResolve(World)

----------------------------------------------------------------------------
(* Replace against Delete of a submission.  Each worker runs                *)
(* update_submission or delete_submission call by call, under the rules of  *)
(* the concurrent requests above; the DELETE of a row waits, like the       *)
(* UPDATE, while another transaction holds the row.                         *)

\* delete_submission: the request arrives.
DropBegin ==
    \E p \in Workers, student_id \in Students, submission_id \in SubmissionIds :
        /\ inflight[p].pc = "idle"
        /\ Goto(p, [pc            |-> "x_select",
                    student_id    |-> student_id,
                    submission_id |-> submission_id,
                    old           |-> {},
                    removed       |-> FALSE,
                    status        |-> 0])
        /\ UNCHANGED <<submissions, assignments, storage, next_submission_id,
                       next_assignment_id, now, requests, last>>

\* SELECT file_url FROM submissions WHERE submission_id = %s AND student_id = %s
\* if not row: 404
DropSelect ==
    \E p \in Workers, db_ok \in BOOLEAN :
        LET rows == SqlSelectOwnSubmissionFile(World, inflight[p].submission_id, inflight[p].student_id)
        IN  /\ inflight[p].pc = "x_select"
            /\ IF ~db_ok THEN Finish(p, 500)
               ELSE IF rows = {} THEN Finish(p, 404)
               ELSE IF \E r \in rows : ~IsNull(r.file_url)
               THEN Goto(p, [inflight[p] EXCEPT !.pc = "x_remove", !.old = rows])
               ELSE Goto(p, [inflight[p] EXCEPT !.pc = "x_delete", !.old = rows])
            /\ UNCHANGED <<submissions, assignments, storage, next_submission_id,
                           next_assignment_id, now, requests, last>>

\* try: storage.from_('submissions').remove([fname]) except: pass
DropRemove ==
    \E p \in Workers, rm_ok \in BOOLEAN :
        /\ inflight[p].pc = "x_remove"
        /\ storage' =
              IF rm_ok
              THEN StorageRemove(storage, BUCKET_SUBMISSIONS,
                       UrlFileName(Val((CHOOSE r \in inflight[p].old : TRUE).file_url)))
              ELSE storage
        /\ Goto(p, [inflight[p] EXCEPT !.pc = "x_delete", !.removed = rm_ok])
        /\ UNCHANGED <<submissions, assignments, next_submission_id,
                       next_assignment_id, now, requests, last>>

\* DELETE FROM submissions WHERE submission_id = %s
DropDelete ==
    \E p \in Workers, db_ok \in BOOLEAN :
        /\ inflight[p].pc = "x_delete"
        /\ ~RowHeld(p)
        /\ IF db_ok
           THEN Goto(p, [inflight[p] EXCEPT !.pc = "x_commit"])
           ELSE Finish(p, 500)
        /\ UNCHANGED <<submissions, assignments, storage, next_submission_id,
                       next_assignment_id, now, requests, last>>

\* conn.commit()
DropCommit ==
    \E p \in Workers, db_ok \in BOOLEAN :
        /\ inflight[p].pc = "x_commit"
        /\ IF db_ok
           THEN /\ submissions' = SqlDeleteSubmission(World, inflight[p].submission_id).submissions
                /\ Finish(p, 200)
           ELSE /\ Finish(p, 500)
                /\ UNCHANGED submissions
        /\ UNCHANGED <<assignments, storage, next_submission_id,
                       next_assignment_id, now, requests, last>>

DropRaceNext ==
    \/ ReplaceBegin
    \/ ReplaceUpload
    \/ ReplaceSelect
    \/ ReplaceUpdate
    \/ ReplaceCommit
    \/ ReplaceRemove
    \/ DropBegin
    \/ DropSelect
    \/ DropRemove
    \/ DropDelete
    \/ DropCommit
    \/ Tick

DropRaceSpec == RaceInit /\ [][DropRaceNext]_vars

----------------------------------------------------------------------------
(* C32: when a Replace and a Delete by the owning student run concurrently  *)
(* on the same submission and both return success, with no store failure,   *)
(* then in every interleaving the submission row is absent afterwards and   *)
(* no blob uploaded for that submission, neither the original nor the       *)
(* replacement, remains in the store.                                       *)

\* The removal the worker asked for, if it asked for one, was done.
NoRemovalFailure(p) ==
    (\E r \in inflight[p].old : ~IsNull(r.file_url)) => inflight[p].removed

\* Worker p has replaced and worker q has deleted the same submission, both
\* as its owner and both answered with success.
ReplacedAndDeleted(p, q) ==
    /\ inflight[p].pc = "done"
    /\ inflight[q].pc = "done"
    /\ "filename" \in DOMAIN inflight[p]
    /\ "filename" \notin DOMAIN inflight[q]
    /\ inflight[p].status = 200
    /\ inflight[q].status = 200
    /\ inflight[p].submission_id = inflight[q].submission_id
    /\ inflight[p].student_id = inflight[q].student_id
    /\ SqlSelectOwnSubmissionFile(RaceWorld, inflight[p].submission_id, inflight[p].student_id) # {}
    /\ NoRemovalFailure(p)
    /\ NoRemovalFailure(q)

C32_RowAbsentAfterReplaceAndDelete ==
    \A p, q \in Workers :
        ReplacedAndDeleted(p, q)
        => SubmissionById(World, inflight[p].submission_id) = {}

C32_NoBlobAfterReplaceAndDelete ==
    \A p, q \in Workers :
        ReplacedAndDeleted(p, q)
        => /\ ReplaceObject(p) \notin storage
           /\ \A o \in SubmissionById(RaceWorld, inflight[p].submission_id) :
                FileObject(BUCKET_SUBMISSIONS, o) \notin storage

\* The same for a Replace that read the row, removed the blob it read and
\* uploaded under a key of its own.
C32_ReplacementOfReadRowIsGone ==
    \A p, q \in Workers :
        (/\ ReplacedAndDeleted(p, q)
         /\ inflight[p].removed
         /\ \A o \in SubmissionById(RaceWorld, inflight[p].submission_id) :
              FileObject(BUCKET_SUBMISSIONS, o) # ReplaceObject(p))
        => ReplaceObject(p) \notin storage

C32_ReplaceAndDeleteLeaveNothing ==
    /\ C32_RowAbsentAfterReplaceAndDelete
    /\ C32_NoBlobAfterReplaceAndDelete

----------------------------------------------------------------------------
(* C33: the student dashboard counts are consistent with the rows for any   *)
(* number of submissions per (assignment, student) pair.  total_assignments *)
(* equals the number of assignment rows, pending_count equals the number of *)
(* assignments for which the student has no submission row, and             *)
(* total_assignments = pending_count + the number of assignments with at    *)
(* least one submission by the student, also when the student has several   *)
(* submission rows for one assignment.                                      *)

\* The assignments to which the student of the request has submitted.
SubmittedAssignments ==
    {a \in assignments :
        \E r \in submissions :
            /\ r.assignment_id = a.assignment_id
            /\ r.student_id = last.req.student_id}

DashboardAnswered == Serving("get_student_dashboard") /\ last.resp.status = 200

C33_PendingCountsAssignmentsWithoutRow ==
    DashboardAnswered
    => last.resp.pending_count = Cardinality(assignments \ SubmittedAssignments)

C33_TotalCountsAssignments ==
    DashboardAnswered
    => /\ last.resp.total_assignments = Cardinality(assignments)
       /\ last.resp.total_assignments =
             last.resp.pending_count + Cardinality(SubmittedAssignments)

C33_DashboardCountsMatchRows ==
    /\ C33_PendingCountsAssignmentsWithoutRow
    /\ C33_TotalCountsAssignments

====
